---------------------------- MODULE Spec2Model ----------------------------
(***************************************************************************)
(* Model of the Instagram trend suggester backend:                         *)
(*   - GeminiClient._make_request_with_retry   (gemini_utils.py)           *)
(*   - GeminiClient._process_requests_parallel (gemini_utils.py)           *)
(*   - Database write/read operations          (db.py)                     *)
(*   - POST /analyze-profile                   (main.py)                   *)
(* Each component has its own specification over the shared variables.     *)
(***************************************************************************)
EXTENDS Integers, Sequences, FiniteSets, TLC

VARIABLES
    \* ---- _make_request_with_retry: one invocation ----
    max_retries,      \* argument max_retries
    expected_format,  \* argument expected_format ("json" or "text")
    attempt,          \* loop variable of `for attempt in range(max_retries)`
    calls,            \* number of model.generate_content calls issued so far
    pauses,           \* the time.sleep durations taken so far, in order
    rq_pc,            \* "running" | "returned" | "raised"
    raw_response,     \* response.text of the call that produced the return
    rq_result,        \* what the invocation returned / raised
    all_malformed,    \* every remote call so far answered with unparsable text
    last_kind,        \* how the latest remote call ended: "none" before the
                      \* first, then "error" | "malformed" | "ok"
    \* ---- _process_requests_parallel: one batch ----
    par_n,            \* len(prompts)
    fut,              \* fut[i]: state of the future submitted for prompt i:
                      \* "queued" | "running" | "ok" | "failed"
    yielded,          \* futures as_completed has handed to the loop body
    results,          \* the list `results`
    par_pc,           \* "collecting" | "timeout_exit" | "returned" | "raised"
    expired,          \* the 30 s deadline of as_completed has passed
    pending_at_deadline, \* futures that were not finished when it passed
    \* ---- the database and its sessions ----
    trending,         \* committed rows of table trending_data, in insert order
    matched,          \* committed rows of table matched_trends, in insert order
    now,              \* datetime.utcnow(), in ticks of 30 minutes
    sess,             \* sess[s]: the SessionLocal() of the write call in progress
    last_saved,       \* last_saved[u]: the batch of the latest committed
                      \* save_matched_trends(u, ...), or NeverSaved
    \* ---- HTTP facade ----
    api,              \* the POST /analyze-profile request being served
    \* ---- AI client analysis operations ----
    ai,               \* the latest call of an analysis operation: which one,
                      \* how its remote call(s) ended, what it returned
    \* ---- TrendScheduler ----
    sched,            \* the scheduler, its job and the refresher run in progress
    \* ---- GET /suggestions/{username} ----
    sugg              \* the GET /suggestions request being served

retryVars == <<max_retries, expected_format, attempt, calls, pauses, rq_pc,
               raw_response, rq_result, all_malformed, last_kind>>

parVars == <<par_n, fut, yielded, results, par_pc, expired, pending_at_deadline>>

dbVars == <<trending, matched, now, sess, last_saved>>

vars == <<max_retries, expected_format, attempt, calls, pauses, rq_pc,
          raw_response, rq_result, all_malformed, last_kind,
          par_n, fut, yielded, results, par_pc, expired, pending_at_deadline,
          trending, matched, now, sess, last_saved, api, ai, sched, sugg>>

apiVars == <<api>>

aiVars == <<ai>>

schedVars == <<sched>>

suggVars == <<sugg>>

\* What the actions of one component leave alone.
othersThanRetry == <<parVars, dbVars, apiVars, aiVars, schedVars, suggVars>>
othersThanParallel == <<retryVars, dbVars, apiVars, aiVars, schedVars, suggVars>>
othersThanDb == <<retryVars, parVars, apiVars, aiVars, schedVars, suggVars>>
othersThanApi == <<retryVars, parVars, aiVars, schedVars, suggVars>>
othersThanAi == <<retryVars, parVars, dbVars, apiVars, schedVars, suggVars>>
othersThanSched == <<retryVars, parVars, apiVars, aiVars, suggVars>>
othersThanSugg == <<retryVars, parVars, dbVars, apiVars, aiVars, schedVars>>

-----------------------------------------------------------------------------
(***************************************************************************)
(* Response texts.  A text is a sequence of lexical chunks:                *)
(*   "F"  a Markdown code fence  ```                                       *)
(*   "J"  the word  json  (text that is not itself a JSON document)        *)
(*   "W"  whitespace                                                       *)
(*   "V"  one complete JSON value                                          *)
(***************************************************************************)
Tokens == {"F", "J", "W", "V"}

\* Longest response text, in chunks.
MaxTextLen == 3

\* Largest max_retries argument explored.
MaxRetries == 3

Texts == UNION {[1..n -> Tokens] : n \in 0..MaxTextLen}

\* str.lstrip / str.rstrip / str.strip on whitespace
RECURSIVE LStrip(_)
LStrip(t) == IF t # <<>> /\ Head(t) = "W" THEN LStrip(Tail(t)) ELSE t

RECURSIVE RStrip(_)
RStrip(t) ==
    IF t # <<>> /\ t[Len(t)] = "W" THEN RStrip(SubSeq(t, 1, Len(t) - 1)) ELSE t

Strip(t) == LStrip(RStrip(t))

\* str.startswith
StartsWith(t, p) == Len(t) >= Len(p) /\ SubSeq(t, 1, Len(p)) = p

\* str.replace(p, ''): every non-overlapping occurrence of p, left to right
RECURSIVE RemoveAll(_, _)
RemoveAll(t, p) ==
    IF t = <<>> THEN <<>>
    ELSE IF StartsWith(t, p) THEN RemoveAll(SubSeq(t, Len(p) + 1, Len(t)), p)
    ELSE <<Head(t)>> \o RemoveAll(Tail(t), p)

\* gemini_utils.py lines 32-38: strip, then remove Markdown fences
StripFences(text) ==
    LET s == Strip(text) IN
    IF StartsWith(s, <<"F", "J">>)
        THEN Strip(RemoveAll(RemoveAll(s, <<"F", "J">>), <<"F">>))
    ELSE IF StartsWith(s, <<"F">>)
        THEN Strip(RemoveAll(s, <<"F">>))
    ELSE s

\* json.loads succeeds: exactly one JSON value, whitespace around it allowed
ParsesAsJson(t) == Strip(t) = <<"V">>

\* Outcome of one model.generate_content call: an exception or a text.
RemoteOutcomes == {[kind |-> "error"]} \cup {[kind |-> "text", text |-> t] : t \in Texts}

NoResult == [kind |-> "none"]

-----------------------------------------------------------------------------
\* The components a specification does not exercise stay in these states.
RetryIdle ==
    /\ max_retries = 0
    /\ expected_format = "json"
    /\ attempt = 0
    /\ calls = 0
    /\ pauses = <<>>
    /\ rq_pc = "idle"
    /\ raw_response = <<>>
    /\ rq_result = NoResult
    /\ all_malformed = TRUE
    /\ last_kind = "none"

ParIdle ==
    /\ par_n = 0
    /\ fut = <<>>
    /\ yielded = {}
    /\ results = <<>>
    /\ par_pc = "idle"
    /\ expired = FALSE
    /\ pending_at_deadline = {}

\* The two handles and the sessions that can be open at once.
Usernames == {"u1", "u2"}

SessionIds == {1, 2}

NeverSaved == [saved |-> FALSE, batch |-> <<>>]

\* A session record: the call it serves (op, user), how far the call has come
\* (n elements worked through, the rows added, the number of rows its DELETE
\* removed), how the latest call ended (outcome; failed_op names a call that
\* raised), and the tables as they were when the call began.
NoSession ==
    [op |-> "none", user |-> "", n |-> 0, added |-> <<>>, ndeleted |-> 0,
     outcome |-> "none", failed_op |-> "none",
     pre_trending |-> <<>>, pre_matched |-> <<>>]

\* What analyze_profile_complete hands back when there is nothing yet.
NoAnalysis ==
    [user_interests |-> "none", matched_trends |-> <<>>, post_suggestions |-> <<>>]

\* No request has been served yet.
NoRequest ==
    [pc |-> "idle", username |-> "", profile |-> "none", had_trends |-> FALSE,
     analysis |-> NoAnalysis, status |-> 0, save_failed |-> FALSE,
     matched_trends |-> <<>>, post_suggestions |-> <<>>,
     user_interests |-> "none", failure |-> "none"]

ApiIdle == api = NoRequest

\* No analysis operation has been called yet.
NoCall == [op |-> "none"]

AiIdle == ai = NoCall

\* The scheduler before start_scheduler() is called: no TrendScheduler yet
\* (trend_scheduler is None), and no run.
\*   start_pc     where start() is: "none" | "immediate" | "done" | "failed",
\*                and "again" during a repeated start()
\*   running      BackgroundScheduler.running
\*   job          the job 'fetch_trends' is registered
\*   run          where fetch_and_store_trends is:
\*                "idle" | "fetching" | "inserting" | "done"
\*   thread       who is executing it: "none" | "startup" | "timer"
\*   stale        what should_fetch_trends answered in this run
\*   candidates   what get_trending_hashtags_mock returned in this run
\*   source_calls, insert_calls, handed
\*                calls this run made to the trend source and to
\*                insert_trending_data, and the list handed to the latter
\*   outcome      how the latest run ended:
\*                "none" | "skipped" | "no_data" | "stored" | "failed"
\*   failed_at    where it failed: "none" | "check" | "fetch" | "insert"
\*   escaped      an exception left fetch_and_store_trends
\*   has_failed   some run has failed
\*   pre_trending, pre_matched   the tables when the run began
\*   stop_pc      where stop() is: "none" | "waiting" | "returned"
\*   last_stop    what the latest stop() did: "none" | "shutdown" | "noop"
\*   stop_raised  a stop() raised
\*   stop_in_run  stop() was called while this run was in progress
\*   starts       calls of start() made so far
\*   hooks        exit hooks registered with atexit (line 63)
\*   start_raised scheduler.start() raised in a start() (and was logged)
\*   caller       where the immediate run of a repeated start() is, in the
\*                thread that called start():
\*                "idle" | "fetching" | "inserting" | "done"
\*   caller_handed   the list that run handed to insert_trending_data
\*   exit_pc      the process exit: "none" | "hooks" | "waiting" | "exited"
\*   hooks_left   exit hooks still to be run
\*   exit_raised  an exit hook raised
NoScheduler ==
    [start_pc |-> "none", running |-> FALSE, job |-> FALSE,
     run |-> "idle", thread |-> "none", stale |-> FALSE, candidates |-> <<>>,
     source_calls |-> 0, insert_calls |-> 0, handed |-> <<>>,
     outcome |-> "none", failed_at |-> "none", escaped |-> FALSE,
     has_failed |-> FALSE, pre_trending |-> <<>>, pre_matched |-> <<>>,
     stop_pc |-> "none", last_stop |-> "none", stop_raised |-> FALSE,
     stop_in_run |-> FALSE, starts |-> 0, hooks |-> 0, start_raised |-> FALSE,
     caller |-> "idle", caller_handed |-> <<>>, exit_pc |-> "none",
     hooks_left |-> 0, exit_raised |-> FALSE]

SchedIdle == sched = NoScheduler

\* No GET /suggestions request has been served yet.
\*   ai_calls   calls made to generate_post_suggestions_simple
\*   remote     how the remote call of that operation ended
\*   analysis   the POST /analyze-profile response that came before
NoSuggestions ==
    [pc |-> "idle", username |-> "", status |-> 0, matched_trends |-> <<>>,
     post_suggestions |-> <<>>, ai_calls |-> 0, remote |-> [kind |-> "none"],
     analysis |-> NoRequest]

SuggIdle == sugg = NoSuggestions

DbIdle ==
    /\ trending = <<>>
    /\ matched = <<>>
    /\ now = 0
    /\ sess = [s \in SessionIds |-> NoSession]
    /\ last_saved = [u \in Usernames |-> NeverSaved]

-----------------------------------------------------------------------------
(***************************************************************************)
(* GeminiClient._make_request_with_retry                                   *)
(***************************************************************************)
InitRetry ==
    /\ max_retries \in 0..MaxRetries
    /\ expected_format \in {"json", "text"}
    /\ attempt = 0
    /\ calls = 0
    /\ pauses = <<>>
    /\ rq_pc = "running"
    /\ raw_response = <<>>
    /\ rq_result = NoResult
    /\ all_malformed = TRUE
    /\ last_kind = "none"
    /\ ParIdle
    /\ DbIdle
    /\ ApiIdle
    /\ AiIdle
    /\ SchedIdle
    /\ SuggIdle

\* A mutant of ReturnText: the unstripped response.text is returned.
ReturnTextUnstripped(raw, text) ==
    /\ rq_pc' = "returned"
    /\ raw_response' = raw
    /\ rq_result' = [kind |-> "value", text |-> raw]
    /\ UNCHANGED <<attempt, pauses>>

\* `return response_text` (lines 47 and 58)
ReturnText(raw, text) ==
    /\ rq_pc' = "returned"
    /\ raw_response' = raw
    /\ rq_result' = [kind |-> "value", text |-> text]
    /\ UNCHANGED <<attempt, pauses>>

\* `raise e` / `raise ValueError(...)` leaving the function (line 67)
RaiseError(err) ==
    /\ rq_pc' = "raised"
    /\ rq_result' = err
    /\ UNCHANGED <<attempt, pauses, raw_response>>

\* time.sleep(d), then the next iteration of the for loop
SleepAndContinue(d) ==
    /\ pauses' = Append(pauses, d)
    /\ attempt' = attempt + 1
    /\ UNCHANGED <<rq_pc, raw_response, rq_result>>

\* A mutant of Backoff: the attempts are counted from one.
BackoffFromOne(a) == 3 + ((a + 1) * 2)

\* wait_time = 3 + (attempt * 2)   (line 63)
Backoff(a) == 3 + (a * 2)

\* The pause after a response that failed JSON validation (line 53).
JsonRetryPause == 2

\* A mutant of HasAttemptsLeft: the bound is off by one.
HasAttemptsLeftOffByOne(a, n) == a < n

\* `if attempt < max_retries - 1` (lines 51 and 62)
HasAttemptsLeft(a, n) == a < n - 1

\* A mutant of OuterExcept: the failure is raised at once, without a retry.
OuterExceptNoRetry(err) == RaiseError(err)

\* The outer `except Exception as e` handler (lines 60-67); it also receives
\* the ValueError raised on line 56 inside the try block.
OuterExcept(err) ==
    IF HasAttemptsLeft(attempt, max_retries)
        THEN SleepAndContinue(Backoff(attempt))
        ELSE RaiseError(err)

\* One iteration of the loop body (lines 27-67) for a given remote outcome.
Attempt(o) ==
    /\ rq_pc = "running"
    /\ attempt < max_retries
    /\ calls' = calls + 1
    /\ all_malformed' = (all_malformed /\ o.kind = "text"
                            /\ ~ParsesAsJson(StripFences(o.text)))
    /\ last_kind' = IF o.kind = "error" THEN "error"
                    ELSE IF ParsesAsJson(StripFences(o.text)) THEN "ok"
                    ELSE "malformed"
    /\ UNCHANGED <<max_retries, expected_format>>
    /\ UNCHANGED othersThanRetry
    /\ IF o.kind = "error"
         THEN OuterExcept([kind |-> "remote_error", attempt |-> attempt])
       ELSE LET response_text == StripFences(o.text) IN
         IF expected_format = "json"
           THEN IF ParsesAsJson(response_text)
                  THEN ReturnText(o.text, response_text)
                ELSE IF HasAttemptsLeft(attempt, max_retries)
                  THEN SleepAndContinue(JsonRetryPause)
                ELSE OuterExcept([kind |-> "ValueError", attempt |-> attempt])
           ELSE ReturnText(o.text, response_text)

\* range(max_retries) is exhausted: the function body ends without a return
\* statement, so the caller receives None.
FallOffEnd ==
    /\ rq_pc = "running"
    /\ attempt >= max_retries
    /\ rq_pc' = "returned"
    /\ rq_result' = [kind |-> "None"]
    /\ UNCHANGED <<max_retries, expected_format, attempt, calls, pauses,
                   raw_response, all_malformed, last_kind>>
    /\ UNCHANGED othersThanRetry

RemoteCall == \E o \in RemoteOutcomes : Attempt(o)

NextRetry ==
    \/ RemoteCall
    \/ FallOffEnd

SpecRetry == InitRetry /\ [][NextRetry]_vars

RetryDone == rq_pc \in {"returned", "raised"}

\* A text that is one JSON value with nothing but whitespace around it.
WellFormedJson(t) ==
    \E i \in 1..Len(t) :
        /\ t[i] = "V"
        /\ \A j \in 1..Len(t) : j # i => t[j] = "W"

(***************************************************************************)
(* C1: with JSON expected and every remote response unparsable after fence *)
(* stripping, an invocation with max_retries = n >= 1 never returns; it    *)
(* ends only by raising ValueError, and only after exactly n remote calls. *)
(***************************************************************************)
C1_MalformedExhaustsAllAttempts ==
    (expected_format = "json" /\ max_retries >= 1 /\ all_malformed) =>
        /\ rq_pc # "returned"
        /\ calls <= max_retries
        /\ rq_pc = "running" => calls < max_retries
        /\ rq_pc = "raised" =>
              /\ calls = max_retries
              /\ rq_result.kind = "ValueError"

C1_Witness ==
    /\ expected_format = "json"
    /\ max_retries = MaxRetries
    /\ all_malformed
    /\ rq_pc = "raised"
    /\ calls = MaxRetries

(***************************************************************************)
(* C2: whenever an invocation with JSON expected (n >= 1) returns normally,*)
(* the returned value is the fence-stripped text of the last remote        *)
(* response, and that text is a well-formed JSON document.                 *)
(***************************************************************************)
C2_ReturnedTextIsStrippedJson ==
    (rq_pc = "returned" /\ expected_format = "json" /\ max_retries >= 1) =>
        /\ rq_result.kind = "value"
        /\ rq_result.text = StripFences(raw_response)
        /\ WellFormedJson(rq_result.text)
        /\ last_kind = "ok"

C2_Witness ==
    /\ rq_pc = "returned"
    /\ expected_format = "json"
    /\ calls = MaxRetries
    /\ raw_response = <<"F", "J", "V">>
    /\ rq_result = [kind |-> "value", text |-> <<"V">>]

(***************************************************************************)
(* C3: the number of remote calls never exceeds max_retries; after a       *)
(* remote-call failure on a non-final attempt the invocation is still      *)
(* running and about to make the next attempt; when the final attempt ends *)
(* in a remote-call failure, the invocation raises that very failure.      *)
(***************************************************************************)
C3_RemoteFailuresRetriedThenSurfaced ==
    /\ calls <= max_retries
    /\ (last_kind = "error" /\ calls < max_retries) =>
          /\ rq_pc = "running"
          /\ attempt = calls
    /\ (last_kind = "error" /\ calls = max_retries) =>
          /\ rq_pc = "raised"
          /\ rq_result = [kind |-> "remote_error", attempt |-> max_retries - 1]

C3_Witness ==
    /\ max_retries = MaxRetries
    /\ rq_pc = "raised"
    /\ rq_result = [kind |-> "remote_error", attempt |-> MaxRetries - 1]
    /\ pauses = <<3, 2>>

-----------------------------------------------------------------------------
(***************************************************************************)
(* GeminiClient._process_requests_parallel                                 *)
(*                                                                         *)
(* The response text of prompt i is written i; the empty string is 0.      *)
(***************************************************************************)
\* Largest batch explored.
MaxPrompts == 4

\* ThreadPoolExecutor(max_workers=3)
MaxWorkers == 3

EmptyString == 0

Prompts == 1..par_n

Finished(i) == fut[i] \in {"ok", "failed"}

Running == {i \in Prompts : fut[i] = "running"}

\* The state after the dict comprehension of lines 75-78: every prompt has
\* been submitted and as_completed has just been called.
InitParallel ==
    /\ RetryIdle
    /\ par_n \in 0..MaxPrompts
    /\ fut = [i \in 1..par_n |-> "queued"]
    /\ yielded = {}
    /\ results = <<>>
    /\ par_pc = "collecting"
    /\ expired = FALSE
    /\ pending_at_deadline = {}
    /\ DbIdle
    /\ ApiIdle
    /\ AiIdle
    /\ SchedIdle
    /\ SuggIdle

\* The function is inside the `with` block (its body or its __exit__).
InWithBlock == par_pc \in {"collecting", "timeout_exit"}

\* A pool thread takes the oldest queued work item.
WorkerStart(i) ==
    /\ InWithBlock
    /\ fut[i] = "queued"
    /\ \A j \in Prompts : j < i => fut[j] # "queued"
    /\ Cardinality(Running) < MaxWorkers
    /\ fut' = [fut EXCEPT ![i] = "running"]
    /\ UNCHANGED <<par_n, yielded, results, par_pc, expired, pending_at_deadline>>
    /\ UNCHANGED othersThanParallel

\* self._make_request_with_retry(prompt) ends in the pool thread: it returned
\* the response text (ok = TRUE) or raised after its retries (ok = FALSE).
WorkerFinish(i, ok) ==
    /\ InWithBlock
    /\ fut[i] = "running"
    /\ fut' = [fut EXCEPT ![i] = IF ok THEN "ok" ELSE "failed"]
    /\ UNCHANGED <<par_n, yielded, results, par_pc, expired, pending_at_deadline>>
    /\ UNCHANGED othersThanParallel

\* Thirty seconds have passed since as_completed was called.
DeadlinePasses ==
    /\ par_pc = "collecting"
    /\ ~expired
    /\ expired' = TRUE
    /\ pending_at_deadline' = {i \in Prompts : ~Finished(i)}
    /\ UNCHANGED <<par_n, fut, yielded, results, par_pc>>
    /\ UNCHANGED othersThanParallel

\* A mutant of LoopBody: the exception of a failed future is not caught and
\* its entry is lost.
LoopBodyDropFailed(i) ==
    IF fut[i] = "ok" THEN Append(results, i) ELSE results

\* Lines 82-87: future.result() appended, or "" when it raises.
LoopBody(i) ==
    IF fut[i] = "ok" THEN Append(results, i) ELSE Append(results, EmptyString)

\* as_completed yields a finished future and the loop body runs for it.
YieldCompleted(i) ==
    /\ par_pc = "collecting"
    /\ i \notin yielded
    /\ Finished(i)
    /\ yielded' = yielded \cup {i}
    /\ results' = LoopBody(i)
    /\ UNCHANGED <<par_n, fut, par_pc, expired, pending_at_deadline>>
    /\ UNCHANGED othersThanParallel

\* as_completed finds its deadline passed while futures are still to be
\* yielded and raises TimeoutError; nothing in the function catches it, so
\* the `with` block is left through ThreadPoolExecutor.__exit__.
AsCompletedTimeout ==
    /\ par_pc = "collecting"
    /\ expired
    /\ yielded # Prompts
    /\ par_pc' = "timeout_exit"
    /\ UNCHANGED <<par_n, fut, yielded, results, expired, pending_at_deadline>>
    /\ UNCHANGED othersThanParallel

\* A mutant of AllWorkersJoined: the pool is shut down without waiting.
PoolNotJoined == TRUE

\* ThreadPoolExecutor.__exit__ is shutdown(wait=True): the block is left only
\* when every submitted call has ended.
AllWorkersJoined == \A i \in Prompts : Finished(i)

\* Line 89: every future was yielded, the pool is joined, results returned.
ReturnResults ==
    /\ par_pc = "collecting"
    /\ yielded = Prompts
    /\ AllWorkersJoined
    /\ par_pc' = "returned"
    /\ UNCHANGED <<par_n, fut, yielded, results, expired, pending_at_deadline>>
    /\ UNCHANGED othersThanParallel

\* The TimeoutError leaves the function once the pool is joined.
PropagateTimeout ==
    /\ par_pc = "timeout_exit"
    /\ AllWorkersJoined
    /\ par_pc' = "raised"
    /\ UNCHANGED <<par_n, fut, yielded, results, expired, pending_at_deadline>>
    /\ UNCHANGED othersThanParallel

NextParallel ==
    \/ \E i \in Prompts : WorkerStart(i)
    \/ \E i \in Prompts : \E ok \in BOOLEAN : WorkerFinish(i, ok)
    \/ DeadlinePasses
    \/ \E i \in Prompts : YieldCompleted(i)
    \/ AsCompletedTimeout
    \/ ReturnResults
    \/ PropagateTimeout

SpecParallel == InitParallel /\ [][NextParallel]_vars

ParDone == par_pc \in {"returned", "raised"}

\* How often value v occurs in list s.
Occurrences(s, v) == Cardinality({k \in 1..Len(s) : s[k] = v})

\* One entry per prompt: its text if its call succeeded, "" if it failed.
OneEntryPerPrompt ==
    /\ Len(results) = par_n
    /\ \A i \in Prompts : fut[i] = "ok" => Occurrences(results, i) = 1
    /\ Occurrences(results, EmptyString) =
          Cardinality({i \in Prompts : fut[i] # "ok"})

(***************************************************************************)
(* C4: for every batch and every outcome of each call, the function ends   *)
(* by returning (never by raising) a list with one entry per prompt: the   *)
(* response text for a prompt that succeeded, "" for one that failed.      *)
(***************************************************************************)
C4_AlwaysReturnsOneResultPerPrompt ==
    ParDone => (par_pc = "returned" /\ OneEntryPerPrompt)

(***************************************************************************)
(* C5: when some prompt has not completed at the 30 s deadline, the        *)
(* function waits no further: it returns with the outstanding calls        *)
(* abandoned (still unfinished), "" reported for each of them, and the     *)
(* results of the calls that completed in time.                            *)
(***************************************************************************)
C5_TimeoutAbandonsOutstanding ==
    (pending_at_deadline # {} /\ par_pc # "collecting") =>
        /\ par_pc = "returned"
        /\ Len(results) = par_n
        /\ \A i \in pending_at_deadline : ~Finished(i)
        /\ \A i \in Prompts \ pending_at_deadline :
              fut[i] = "ok" => Occurrences(results, i) = 1
        /\ Occurrences(results, EmptyString) >= Cardinality(pending_at_deadline)

-----------------------------------------------------------------------------
(***************************************************************************)
(* Database (db.py).  A write call opens a session, works through its      *)
(* list one element per step, and ends with commit or rollback.  Rows a    *)
(* session has added are pending in the session until it commits; the      *)
(* tables hold committed rows only.                                        *)
(***************************************************************************)
\* Longest list passed to a write call.
MaxBatch == 2

\* Last tick of the clock.
MaxTime == 4

\* timedelta(hours=1), in ticks of 30 minutes
Hour == 2

\* The dicts of a `trends` list.
TrendDicts ==
    { [hashtag |-> "#a", caption |-> "c1"],
      [hashtag |-> "#a", caption |-> "c2"],
      [hashtag |-> "#b", caption |-> "c1"],
      [hashtag |-> "#a"],
      [caption |-> "c1"] }

\* The dicts of a `matched_trends` list.
MatchDicts ==
    { [hashtag |-> "#a", match_score |-> 1, reasoning |-> "r"],
      [hashtag |-> "#b", match_score |-> 2, reasoning |-> "r"],
      [hashtag |-> "#b", match_score |-> 1] }

\* d[k] raises KeyError
HasKeyError(d, keys) == \E k \in keys : k \notin DOMAIN d

Idle(s) == sess[s].op = "none"

\* session = self.SessionLocal()  (lines 28 and 86)
OpenSession(s, op, u, ndel) ==
    sess' = [sess EXCEPT ![s] =
                [op |-> op, user |-> u, n |-> 0, added |-> <<>>,
                 ndeleted |-> ndel, outcome |-> "none", failed_op |-> "none",
                 pre_trending |-> trending, pre_matched |-> matched]]

\* The call is over: the session is closed (finally: session.close()).
\* outcome is "committed" or "raised".
CloseSession(s, outcome) ==
    sess' = [sess EXCEPT ![s] =
                IF outcome = "raised"
                  THEN [@ EXCEPT !.op = "none", !.added = <<>>,
                                 !.outcome = "raised", !.failed_op = sess[s].op]
                  ELSE [NoSession EXCEPT !.outcome = outcome,
                                         !.user = sess[s].user,
                                         !.ndeleted = sess[s].ndeleted]]

\* A mutant of Rollback: what the session had done so far is written anyway.
RollbackKeepsChanges(s) ==
    /\ trending' = IF sess[s].op = "insert"
                     THEN trending \o sess[s].added ELSE trending
    /\ matched' = IF sess[s].op = "save"
                    THEN SelectSeq(matched, LAMBDA r : r.username # sess[s].user)
                            \o sess[s].added
                    ELSE matched
    /\ CloseSession(s, "raised")
    /\ UNCHANGED <<now, last_saved>>

\* except: session.rollback(); raise e   (lines 48-50 and 105-107)
Rollback(s) ==
    /\ CloseSession(s, "raised")
    /\ UNCHANGED <<trending, matched, now, last_saved>>

\* ---- insert_trending_data ----
BeginInsert(s) ==
    /\ Idle(s)
    /\ OpenSession(s, "insert", "", 0)
    /\ UNCHANGED <<trending, matched, now, last_saved>>
    /\ UNCHANGED othersThanDb

\* session.query(TrendingData).filter(hashtag ==, caption ==).first()
\* The session is made with autoflush=False (line 12), so the query reads the
\* table and not the rows this session has added.
Existing(s, trend) ==
    \E k \in 1..Len(trending) :
        /\ trending[k].hashtag = trend.hashtag
        /\ trending[k].caption = trend.caption

\* One iteration of `for trend in trends` (lines 30-45).
InsertElement(s, trend) ==
    /\ sess[s].op = "insert"
    /\ sess[s].n < MaxBatch
    /\ IF HasKeyError(trend, {"hashtag", "caption"})
         THEN Rollback(s)
         ELSE /\ sess' = [sess EXCEPT
                    ![s].n = @ + 1,
                    ![s].added =
                        IF Existing(s, trend) THEN @
                        ELSE Append(@, [hashtag |-> trend.hashtag,
                                        caption |-> trend.caption,
                                        fetched_at |-> now])]
              /\ UNCHANGED <<trending, matched, now, last_saved>>
    /\ UNCHANGED othersThanDb

\* ---- save_matched_trends ----
RowsOf(u) == SelectSeq(matched, LAMBDA r : r.username = u)

\* session.query(MatchedTrends).filter(username ==).delete()  (lines 89-91)
DeleteExisting(s, u) ==
    /\ Idle(s)
    /\ OpenSession(s, "save", u, Len(RowsOf(u)))
    /\ UNCHANGED <<trending, matched, now, last_saved>>

BeginSave(s, u) ==
    /\ DeleteExisting(s, u)
    /\ UNCHANGED othersThanDb

\* One iteration of `for match in matched_trends` (lines 94-102).
SaveElement(s, match) ==
    /\ sess[s].op = "save"
    /\ sess[s].n < MaxBatch
    /\ IF HasKeyError(match, {"hashtag", "match_score", "reasoning"})
         THEN Rollback(s)
         ELSE /\ sess' = [sess EXCEPT
                    ![s].n = @ + 1,
                    ![s].added = Append(@, [username |-> sess[s].user,
                                            hashtag |-> match.hashtag,
                                            match_score |-> match.match_score,
                                            reasoning |-> match.reasoning])]
              /\ UNCHANGED <<trending, matched, now, last_saved>>
    /\ UNCHANGED othersThanDb

\* The hashtag / match_score / reasoning values of a list of rows.
ValuesOf(rows) ==
    [k \in 1..Len(rows) |->
        [hashtag |-> rows[k].hashtag, match_score |-> rows[k].match_score,
         reasoning |-> rows[k].reasoning]]

\* The table without the first k rows of user u.
RECURSIVE DropFirstOf(_, _, _)
DropFirstOf(rows, u, k) ==
    IF rows = <<>> \/ k = 0 THEN rows
    ELSE IF Head(rows).username = u THEN DropFirstOf(Tail(rows), u, k - 1)
    ELSE <<Head(rows)>> \o DropFirstOf(Tail(rows), u, k)

\* A mutant of CommittedMatched: the DELETE of the old rows is lost.
CommittedMatchedNoDelete(s) == matched \o sess[s].added

\* The table after the session's DELETE and INSERTs are committed.
CommittedMatched(s) ==
    DropFirstOf(matched, sess[s].user, sess[s].ndeleted) \o sess[s].added

\* session.commit() succeeds (lines 47 and 104): the list is exhausted.
Commit(s) ==
    /\ sess[s].op \in {"insert", "save"}
    /\ IF sess[s].op = "insert"
         THEN /\ trending' = trending \o sess[s].added
              /\ UNCHANGED <<matched, last_saved>>
         ELSE /\ matched' = CommittedMatched(s)
              /\ last_saved' = [last_saved EXCEPT
                                    ![sess[s].user] =
                                        [saved |-> TRUE,
                                         batch |-> ValuesOf(sess[s].added)]]
              /\ UNCHANGED trending
    /\ CloseSession(s, "committed")
    /\ UNCHANGED now
    /\ UNCHANGED othersThanDb

\* session.commit() raises (the database rejects or loses the transaction).
CommitFails(s) ==
    /\ sess[s].op \in {"insert", "save"}
    /\ Rollback(s)
    /\ UNCHANGED othersThanDb

\* ---- reads ----
\* A mutant of OrderByFetchedAtDesc: ascending order.
RECURSIVE OrderByFetchedAtAsc(_)
OrderByFetchedAtAsc(rows) ==
    IF rows = <<>> THEN <<>>
    ELSE LET k == CHOOSE i \in 1..Len(rows) :
                    \A j \in 1..Len(rows) :
                        rows[i].fetched_at <= rows[j].fetched_at
             rest == [j \in 1..(Len(rows) - 1) |->
                        IF j < k THEN rows[j] ELSE rows[j + 1]]
         IN <<rows[k]>> \o OrderByFetchedAtAsc(rest)

\* .order_by(TrendingData.fetched_at.desc())
RECURSIVE OrderByFetchedAtDesc(_)
OrderByFetchedAtDesc(rows) ==
    IF rows = <<>> THEN <<>>
    ELSE LET k == CHOOSE i \in 1..Len(rows) :
                    \A j \in 1..Len(rows) :
                        rows[i].fetched_at >= rows[j].fetched_at
             rest == [j \in 1..(Len(rows) - 1) |->
                        IF j < k THEN rows[j] ELSE rows[j + 1]]
         IN <<rows[k]>> \o OrderByFetchedAtDesc(rest)

NoFetch == -1

\* get_last_fetch_time (lines 65-74)
GetLastFetchTime ==
    LET ordered == OrderByFetchedAtDesc(trending) IN
    IF ordered = <<>> THEN NoFetch ELSE Head(ordered).fetched_at

\* should_fetch_trends (lines 76-82)
ShouldFetchTrends ==
    LET last_fetch == GetLastFetchTime IN
    IF last_fetch = NoFetch THEN TRUE
    ELSE now - last_fetch > Hour

\* The clock advances by one tick.
Tick ==
    /\ now < MaxTime
    /\ now' = now + 1
    /\ UNCHANGED <<trending, matched, sess, last_saved>>
    /\ UNCHANGED othersThanDb

InitDb ==
    /\ RetryIdle
    /\ ParIdle
    /\ DbIdle
    /\ ApiIdle
    /\ AiIdle
    /\ SchedIdle
    /\ SuggIdle

\* Calls to insert_trending_data, one after the other, as time passes.
NextTrending ==
    \/ BeginInsert(1)
    \/ \E t \in TrendDicts : InsertElement(1, t)
    \/ Commit(1)
    \/ CommitFails(1)
    \/ Tick

SpecTrending == InitDb /\ [][NextTrending]_vars

\* Calls to save_matched_trends, one after the other.
NextMatched ==
    \/ \E u \in Usernames : BeginSave(1, u)
    \/ \E m \in MatchDicts : SaveElement(1, m)
    \/ Commit(1)
    \/ CommitFails(1)

SpecMatched == InitDb /\ [][NextMatched]_vars

\* Calls to either write operation, one after the other: the inserts of the
\* refresher and the saves of one handle's analyses.
NextDb ==
    \/ BeginInsert(1)
    \/ \E t \in TrendDicts : InsertElement(1, t)
    \/ BeginSave(1, "u1")
    \/ \E m \in MatchDicts : SaveElement(1, m)
    \/ Commit(1)
    \/ CommitFails(1)

SpecDb == InitDb /\ [][NextDb]_vars

(***************************************************************************)
(* C6: after any sequence of save_matched_trends calls made one after the  *)
(* other, the rows stored for a handle are exactly the rows of the batch   *)
(* of the latest committed save for that handle (none if there was no      *)
(* such save); a save for one handle leaves the other handles' rows alone. *)
(***************************************************************************)
C6_LatestBatchOnly ==
    \A u \in Usernames :
        IF last_saved[u].saved
            THEN ValuesOf(RowsOf(u)) = last_saved[u].batch
            ELSE RowsOf(u) = <<>>

C6_Witness ==
    /\ sess[1].outcome = "committed"
    /\ sess[1].user = "u1"
    /\ sess[1].ndeleted = MaxBatch
    /\ Len(RowsOf("u1")) = 1
    /\ Len(RowsOf("u2")) = MaxBatch

SamePair(r1, r2) == r1.hashtag = r2.hashtag /\ r1.caption = r2.caption

(***************************************************************************)
(* C8: after any sequence of insert_trending_data calls the trending table *)
(* holds at most one row per (hashtag, caption) pair.                      *)
(***************************************************************************)
C8_OneRowPerPair ==
    \A i, j \in 1..Len(trending) :
        i # j => ~SamePair(trending[i], trending[j])

(***************************************************************************)
(* C9: should_fetch_trends is true when the trending table has no rows;    *)
(* otherwise it is true exactly when more than one hour has passed since   *)
(* the most recent fetch timestamp, i.e. when every row is older than one  *)
(* hour.                                                                   *)
(***************************************************************************)
C9_StaleAfterOneHour ==
    IF trending = <<>>
        THEN ShouldFetchTrends
        ELSE ShouldFetchTrends <=>
                \A k \in 1..Len(trending) : now - trending[k].fetched_at > Hour

C9_Witness ==
    /\ ~ShouldFetchTrends
    /\ \E i, j \in 1..Len(trending) :
          /\ now - trending[i].fetched_at > Hour
          /\ now - trending[j].fetched_at = Hour

(***************************************************************************)
(* C10: a write call is all-or-nothing.  While insert_trending_data or     *)
(* save_matched_trends is working through its batch, and after it has      *)
(* raised, both tables are exactly as they were when the call began: a     *)
(* failed save leaves the handle's previous rows in place and no reader    *)
(* sees part of a batch.                                                   *)
(***************************************************************************)
C10_WritesAreAllOrNothing ==
    \A s \in SessionIds :
        (sess[s].op # "none" \/ sess[s].outcome = "raised") =>
            /\ trending = sess[s].pre_trending
            /\ matched = sess[s].pre_matched

C10_Witness ==
    /\ sess[1].outcome = "raised"
    /\ sess[1].failed_op = "save"
    /\ sess[1].n = 1
    /\ sess[1].ndeleted = MaxBatch
    /\ Len(RowsOf("u1")) = MaxBatch
    /\ trending # <<>>

\* ---- two save_matched_trends calls at once (PostgreSQL, READ COMMITTED) ----
\* Another open session has deleted rows of u and not yet ended: it holds
\* the row locks a DELETE for u has to wait for.
LockHeldByOther(s, u) ==
    \E t \in SessionIds \ {s} :
        /\ sess[t].op = "save"
        /\ sess[t].user = u
        /\ sess[t].ndeleted > 0

SomeoneWaits == \E t \in SessionIds : sess[t].op = "delete_wait"

\* session.query(MatchedTrends).filter(username ==).delete()  (lines 86-91)
\* while other calls may be in progress.  The DELETE sees the rows committed
\* when it starts; where another session holds their locks it waits.
BeginSaveShared(s, u) ==
    /\ Idle(s)
    /\ ~SomeoneWaits
    /\ IF LockHeldByOther(s, u)
         THEN OpenSession(s, "delete_wait", u, Len(RowsOf(u)))
         ELSE OpenSession(s, "save", u, Len(RowsOf(u)))
    /\ UNCHANGED <<trending, matched, now, last_saved>>
    /\ UNCHANGED othersThanDb

\* The lock holder has ended and the waiting DELETE goes on: if the holder
\* committed, the rows the DELETE had seen are gone and the rows the holder
\* inserted are not in the DELETE's snapshot, so it removes nothing; if the
\* holder rolled back, it removes the rows it had seen.
DeleteUnblocked(s) ==
    /\ sess[s].op = "delete_wait"
    /\ ~LockHeldByOther(s, sess[s].user)
    /\ \E t \in SessionIds \ {s} :
          /\ sess[t].op = "none"
          /\ sess' = [sess EXCEPT
                  ![s].op = "save",
                  ![s].ndeleted =
                      IF sess[t].outcome = "committed" THEN 0 ELSE @,
                  ![s].pre_matched = matched]
    /\ UNCHANGED <<trending, matched, now, last_saved>>
    /\ UNCHANGED othersThanDb

\* Two callers saving matched trends for the same handle, in any interleaving.
NextConcurrent ==
    \/ \E s \in SessionIds : BeginSaveShared(s, "u1")
    \/ \E s \in SessionIds : DeleteUnblocked(s)
    \/ \E s \in SessionIds : \E m \in MatchDicts : SaveElement(s, m)
    \/ \E s \in SessionIds : Commit(s)
    \/ \E s \in SessionIds : CommitFails(s)

SpecConcurrent == InitDb /\ [][NextConcurrent]_vars

(***************************************************************************)
(* C11: when two save_matched_trends calls for the same handle have run    *)
(* concurrently and both have committed, the rows stored for the handle    *)
(* are exactly the batch of the call that committed last.                  *)
(***************************************************************************)
C11_LastCommitWins ==
    (\A s \in SessionIds : sess[s].op = "none" /\ sess[s].outcome = "committed")
        => ValuesOf(RowsOf("u1")) = last_saved["u1"].batch

-----------------------------------------------------------------------------
(***************************************************************************)
(* POST /analyze-profile (main.py) with the single-call analysis           *)
(* GeminiClient.analyze_profile_complete (gemini_utils.py).                *)
(***************************************************************************)
\* db.get_latest_trends(limit=15)
LatestLimit == 15

Take(seq, k) == SubSeq(seq, 1, IF Len(seq) < k THEN Len(seq) ELSE k)

\* A mutant of GetLatestTrends: the query has no .limit(limit).
GetLatestTrendsNoLimit(limit) == OrderByFetchedAtDesc(trending)

\* get_latest_trends (db.py lines 54-63)
GetLatestTrends(limit) == Take(OrderByFetchedAtDesc(trending), limit)

\* A list element that is not a dict (a string, a number).
ScalarElement == [scalar |-> "x"]

IsDict(e) == "scalar" \notin DOMAIN e

MatchLists == UNION {[1..n -> MatchDicts \cup {ScalarElement}] : n \in 0..MaxBatch}

SuggestionLists ==
    { <<>>,
      <<[trend_hashtag |-> "#a", suggestions |-> <<"idea">>]>>,
      <<[trend_hashtag |-> "#a"]>>,
      <<ScalarElement>> }

\* The value found under one key of the parsed JSON object.
\*   kind "absent"   the key is not in the object
\*   kind "unsized"  a number, true, false or null
\*   kind "list"     a list with the given items
\*   other kinds     describe a user_interests value
AbsentField == [kind |-> "absent", items |-> <<>>]

InterestFields ==
    {AbsentField} \cup
    {[kind |-> k, items |-> <<>>] : k \in {"valid", "incomplete", "not_object"}}

ListFields(lists) ==
    {AbsentField, [kind |-> "unsized", items |-> <<>>]} \cup
    {[kind |-> "list", items |-> l] : l \in lists}

\* What json.loads(response_text) can be.
JsonDocs ==
    {[type |-> "other"]} \cup
    {[type |-> "object", user_interests |-> a, matched_trends |-> b,
      post_suggestions |-> c] :
        a \in InterestFields, b \in ListFields(MatchLists),
        c \in ListFields(SuggestionLists)}

\* How self._make_request_with_retry(prompt, expected_format="json") ends.
\* It raises what the last attempt caught (a remote failure, or the ValueError
\* of a response that is not JSON), or returns text that json.loads accepts.
Raised == {[kind |-> "raised", err |-> e] : e \in {"remote_error", "ValueError"}}

RetryResults == Raised \cup {[kind |-> "json", doc |-> d] : d \in JsonDocs}

\* The dict of lines 225-235.
DefaultAnalysis ==
    [user_interests |-> "default", matched_trends |-> <<>>, post_suggestions |-> <<>>]

\* A mutant of AnalyzeProfileComplete: after a failed remote call the default
\* interests are missing from what is returned.
AnalyzeProfileCompleteNoDefault(r) ==
    IF r.kind = "raised" \/ r.doc.type # "object" THEN NoAnalysis
    ELSE [user_interests |-> "valid", matched_trends |-> <<>>,
          post_suggestions |-> <<>>]

\* analyze_profile_complete (gemini_utils.py lines 200-235)
AnalyzeProfileComplete(r) ==
    IF r.kind = "raised" THEN DefaultAnalysis
    ELSE IF r.doc.type # "object" THEN DefaultAnalysis
    ELSE LET ui == IF r.doc.user_interests.kind = "absent"
                     THEN "default" ELSE r.doc.user_interests.kind
             mt == IF r.doc.matched_trends.kind = "absent"
                     THEN [kind |-> "list", items |-> <<>>]
                     ELSE r.doc.matched_trends
             ps == IF r.doc.post_suggestions.kind = "absent"
                     THEN [kind |-> "list", items |-> <<>>]
                     ELSE r.doc.post_suggestions
         IN  \* len(result['matched_trends']), len(result['post_suggestions'])
             IF mt.kind = "unsized" \/ ps.kind = "unsized" THEN DefaultAnalysis
             ELSE [user_interests |-> ui, matched_trends |-> mt.items,
                   post_suggestions |-> ps.items]

\* UserInterests(**complete_analysis["user_interests"]) validates
UserInterestsValid(ui) == ui \in {"valid", "default"}

\* d.get(k, default)
Get(d, k, default) == IF k \in DOMAIN d THEN d[k] ELSE default

\* Lines 121-131: elements that are not dicts are skipped.
RECURSIVE FormatMatches(_)
FormatMatches(l) ==
    IF l = <<>> THEN <<>>
    ELSE IF IsDict(Head(l))
        THEN <<[hashtag |-> Get(Head(l), "hashtag", "Unknown"),
                match_score |-> Get(Head(l), "match_score", 0),
                reasoning |-> Get(Head(l), "reasoning", "No reasoning provided")]>>
             \o FormatMatches(Tail(l))
        ELSE FormatMatches(Tail(l))

\* Lines 133-143
RECURSIVE FormatSuggestions(_)
FormatSuggestions(l) ==
    IF l = <<>> THEN <<>>
    ELSE IF IsDict(Head(l))
        THEN <<[trend_hashtag |-> Get(Head(l), "trend_hashtag", "Unknown"),
                suggestions |-> Get(Head(l), "suggestions", <<>>)]>>
             \o FormatSuggestions(Tail(l))
        ELSE FormatSuggestions(Tail(l))

\* A mutant of RespondError: the HTTPException is caught by the generic
\* handler of lines 154-155 and becomes a 500.
RespondErrorRemapped(u, profile, had, code) ==
    api' = [NoRequest EXCEPT !.pc = "done", !.username = u, !.profile = profile,
                             !.had_trends = had, !.status = 500]

\* raise HTTPException(status_code=code) on lines 85, 88 and 95, passed on by
\* `except HTTPException: raise` (lines 152-153)
RespondError(u, profile, had, code) ==
    api' = [NoRequest EXCEPT !.pc = "done", !.username = u, !.profile = profile,
                             !.had_trends = had, !.status = code]

\* Lines 108-110: the analysis result could not be used
RespondAnalysisError(req) ==
    api' = [req EXCEPT !.pc = "done", !.status = 500, !.failure = "analysis"]

\* Lines 154-155: an exception that is not an HTTPException
RespondInternalError(u, profile, where) ==
    api' = [NoRequest EXCEPT !.pc = "done", !.username = u, !.profile = profile,
                             !.status = 500, !.failure = where]

\* A mutant of RespondSuccess: the exception of save_matched_trends is not
\* caught on line 117 and reaches the generic handler of lines 154-155.
RespondSuccessUnlessSaveFailed(req, failed) ==
    IF failed
      THEN api' = [req EXCEPT !.pc = "done", !.status = 500, !.save_failed = TRUE,
                              !.failure = "save"]
      ELSE api' = [req EXCEPT !.pc = "done", !.status = 200, !.save_failed = FALSE,
                       !.matched_trends = FormatMatches(req.analysis.matched_trends),
                       !.post_suggestions =
                            FormatSuggestions(req.analysis.post_suggestions),
                       !.user_interests = req.analysis.user_interests]

\* Lines 145-150: return ProfileAnalysisResponse(...)
RespondSuccess(req, failed) ==
    api' = [req EXCEPT !.pc = "done", !.status = 200, !.save_failed = failed,
                       !.matched_trends = FormatMatches(req.analysis.matched_trends),
                       !.post_suggestions =
                            FormatSuggestions(req.analysis.post_suggestions),
                       !.user_interests = req.analysis.user_interests]

\* A mutant of SaveArgument: only the first match is handed to the save.
SaveArgumentFirstOnly(analysis) == Take(analysis.matched_trends, 1)

\* db.save_matched_trends(request.username, trend_matches)   (line 115)
SaveArgument(analysis) == analysis.matched_trends

\* Lines 75-115: from the arrival of the request to the first statement of
\* save_matched_trends, or to the response when nothing is saved.
\*   profile: how scraper.get_profile_data ended
\*   r:       how the remote analysis call ended
AnalyzeProfile(u, profile, r) ==
    /\ api.pc = "idle"
    /\ Idle(1)
    /\ LET trending_hashtags ==
               [k \in 1..Len(GetLatestTrends(LatestLimit)) |->
                    GetLatestTrends(LatestLimit)[k].hashtag]
           had == trending_hashtags # <<>>
           complete_analysis == AnalyzeProfileComplete(r)
           req == [NoRequest EXCEPT !.pc = "saving", !.username = u,
                                    !.profile = profile, !.had_trends = had,
                                    !.analysis = complete_analysis]
       IN IF profile \in {"fetch_error", "empty"}
            THEN RespondError(u, profile, had, 400) /\ UNCHANGED dbVars
          ELSE IF trending_hashtags = <<>>
            THEN RespondError(u, profile, had, 503) /\ UNCHANGED dbVars
          ELSE IF ~UserInterestsValid(complete_analysis.user_interests)
            THEN RespondAnalysisError(req) /\ UNCHANGED dbVars
          ELSE IF complete_analysis.matched_trends # <<>>    \* if trend_matches:
            THEN api' = req /\ DeleteExisting(1, u)
          ELSE RespondSuccess(req, FALSE) /\ UNCHANGED dbVars
    /\ UNCHANGED othersThanApi

\* The request fails before the analysis: lines 77-79 raise (no API key, so
\* the profile is never fetched), or the profile is there and line 91 raises
\* (the database cannot be read).
AnalyzeProfileUnavailable(u, where) ==
    /\ api.pc = "idle"
    /\ Idle(1)
    /\ RespondInternalError(u, IF where = "services" THEN "none" ELSE "data",
                            where)
    /\ UNCHANGED dbVars
    /\ UNCHANGED othersThanApi

\* The loop of save_matched_trends over the list it was given.
AnalyzeSaveElement ==
    /\ api.pc = "saving"
    /\ sess[1].op = "save"
    /\ sess[1].n < Len(SaveArgument(api.analysis))
    /\ SaveElement(1, SaveArgument(api.analysis)[sess[1].n + 1])

AnalyzeSaveCommit ==
    /\ api.pc = "saving"
    /\ sess[1].op = "save"
    /\ sess[1].n = Len(SaveArgument(api.analysis))
    /\ Commit(1)

AnalyzeSaveCommitFails ==
    /\ api.pc = "saving"
    /\ CommitFails(1)

\* Lines 116-150: save_matched_trends has returned or raised (the exception
\* is caught on line 117); the response is built and returned.
AnalyzeRespond ==
    /\ api.pc = "saving"
    /\ Idle(1)
    /\ RespondSuccess(api, sess[1].outcome = "raised")
    /\ UNCHANGED dbVars
    /\ UNCHANGED othersThanApi

\* The response has been sent and the request is over.
RequestOver ==
    /\ api.pc = "done"
    /\ api' = NoRequest
    /\ UNCHANGED dbVars
    /\ UNCHANGED othersThanApi

\* The handle whose requests are explored.
ApiUsers == {"u1"}

TrendRow(h, c, t) == [hashtag |-> h, caption |-> c, fetched_at |-> t]

\* The trending table is what the refresher left: empty, or the rows of one
\* fetch.
InitApi ==
    /\ RetryIdle
    /\ ParIdle
    /\ ApiIdle
    /\ AiIdle
    /\ SchedIdle
    /\ SuggIdle
    /\ trending \in {<<>>, <<TrendRow("#a", "c1", 0), TrendRow("#b", "c1", 0)>>}
    /\ matched = <<>>
    /\ now = 0
    /\ sess = [s \in SessionIds |-> NoSession]
    /\ last_saved = [u \in Usernames |-> NeverSaved]

NextApi ==
    \/ \E u \in ApiUsers : \E profile \in {"fetch_error", "empty"} :
          AnalyzeProfile(u, profile, [kind |-> "raised", err |-> "remote_error"])
    \/ \E u \in ApiUsers : \E r \in RetryResults : AnalyzeProfile(u, "data", r)
    \/ \E u \in ApiUsers : \E where \in {"services", "trends_read"} :
          AnalyzeProfileUnavailable(u, where)
    \/ RequestOver
    \/ AnalyzeSaveElement
    \/ AnalyzeSaveCommit
    \/ AnalyzeSaveCommitFails
    \/ AnalyzeRespond

SpecApi == InitApi /\ [][NextApi]_vars

\* The request ended in a success response and its save step did not fail.
AnalysisSucceeded ==
    /\ api.pc = "done"
    /\ api.status = 200
    /\ ~api.save_failed

(***************************************************************************)
(* C7 as claimed: after every POST /analyze-profile for handle H that      *)
(* returns a success response and whose save step did not fail, the rows   *)
(* stored for H are exactly the matched trends of that analysis, whatever  *)
(* the size of the result.                                                 *)
(***************************************************************************)
C7_Original_RowsAreThisAnalysis ==
    AnalysisSucceeded =>
        ValuesOf(RowsOf(api.username)) = api.analysis.matched_trends

(***************************************************************************)
(* C7 as amended: after every POST /analyze-profile for handle H that      *)
(* returns a success response, whose analysis has at least one matched     *)
(* trend and whose save step did not fail, the rows stored for H are       *)
(* exactly the matched trends of that analysis.                            *)
(***************************************************************************)
C7_RowsAreThisNonEmptyAnalysis ==
    (AnalysisSucceeded /\ api.analysis.matched_trends # <<>>) =>
        ValuesOf(RowsOf(api.username)) = api.analysis.matched_trends

C7_Witness ==
    /\ AnalysisSucceeded
    /\ Len(api.analysis.matched_trends) = 1
    /\ sess[1].outcome = "committed"
    /\ sess[1].ndeleted = MaxBatch
    /\ Len(RowsOf(api.username)) = 1

\* The status the claimed mapping gives the request that has been served.
ExpectedStatus ==
    IF api.failure = "services" THEN 500
    ELSE IF api.profile \in {"fetch_error", "empty"} THEN 400
    ELSE IF api.failure = "trends_read" THEN 500
    ELSE IF ~api.had_trends THEN 503
    ELSE IF ~UserInterestsValid(api.analysis.user_interests) THEN 500
    ELSE 200

(***************************************************************************)
(* C18: POST /analyze-profile answers 400 when the profile fetch fails or  *)
(* the profile has no bio and no captions, also when the trending table is *)
(* empty as well; otherwise 503 when the trending table is empty;          *)
(* otherwise 500 when the analysis result cannot be used; 500 when the     *)
(* services or the trending table cannot be reached; and a 400 or 503 is   *)
(* never turned into a 500.                                                *)
(***************************************************************************)
C18_StatusMapping ==
    api.pc = "done" => api.status = ExpectedStatus

C18_Witness ==
    /\ api.pc = "done"
    /\ api.status = 400
    /\ api.profile = "empty"
    /\ ~api.had_trends

-----------------------------------------------------------------------------
(***************************************************************************)
(* The analysis operations of GeminiClient (gemini_utils.py), each called  *)
(* with every way its remote call can end.                                 *)
(***************************************************************************)
\* What _make_request_with_retry hands to an operation that asks for a list:
\* an exception, or JSON text whose value is a list or something else.
ListResults(lists) ==
    Raised \cup {[kind |-> "json", doc |-> [type |-> "other"]]}
           \cup {[kind |-> "json", doc |-> [type |-> "list", items |-> l]] :
                    l \in lists}

\* all(isinstance(m, dict) and k in m ...)   (lines 271 and 305)
AllHaveKeys(l, keys) ==
    \A k \in 1..Len(l) : IsDict(l[k]) /\ keys \subseteq DOMAIN l[k]

\* match_trends_to_interests (lines 267-278)
MatchTrendsToInterests(r) ==
    IF r.kind = "raised" THEN <<>>
    ELSE IF r.doc.type = "list"
            /\ AllHaveKeys(r.doc.items, {"hashtag", "match_score"})
        THEN r.doc.items
    ELSE <<>>

\* generate_post_suggestions (lines 301-312)
GeneratePostSuggestions(r) ==
    IF r.kind = "raised" THEN <<>>
    ELSE IF r.doc.type = "list"
            /\ AllHaveKeys(r.doc.items, {"trend_hashtag", "suggestions"})
        THEN r.doc.items
    ELSE <<>>

\* generate_post_suggestions_simple asks for text (line 339), so the text it
\* gets may fail to parse.
Unparsable == [kind |-> "text"]

\* generate_post_suggestions_simple (lines 338-344): what json.loads gives is
\* returned as it is; a value that is not a list is returned under
\* kind "other".
GeneratePostSuggestionsSimple(r) ==
    IF r.kind \in {"raised", "text"} THEN [kind |-> "list", items |-> <<>>]
    ELSE IF r.doc.type = "list" THEN [kind |-> "list", items |-> r.doc.items]
    ELSE [kind |-> "other", items |-> <<>>]

\* One call of an operation; ai records the call and what it returned.
CallAnalyzeProfileComplete(r) ==
    /\ AiIdle
    /\ ai' = [op |-> "analyze_profile_complete", remote |-> r,
              result |-> AnalyzeProfileComplete(r)]
    /\ UNCHANGED othersThanAi

CallMatchTrendsToInterests(r) ==
    /\ AiIdle
    /\ ai' = [op |-> "match_trends_to_interests", remote |-> r,
              result |-> MatchTrendsToInterests(r)]
    /\ UNCHANGED othersThanAi

CallGeneratePostSuggestions(r) ==
    /\ AiIdle
    /\ ai' = [op |-> "generate_post_suggestions", remote |-> r,
              result |-> GeneratePostSuggestions(r)]
    /\ UNCHANGED othersThanAi

CallGeneratePostSuggestionsSimple(r) ==
    /\ AiIdle
    /\ ai' = [op |-> "generate_post_suggestions_simple", remote |-> r,
              result |-> GeneratePostSuggestionsSimple(r)]
    /\ UNCHANGED othersThanAi

\* The caller has taken the result; the next call can be made.
CallOver ==
    /\ ~AiIdle
    /\ ai' = NoCall
    /\ UNCHANGED othersThanAi

InitAnalysis ==
    /\ RetryIdle
    /\ ParIdle
    /\ DbIdle
    /\ ApiIdle
    /\ AiIdle
    /\ SchedIdle
    /\ SuggIdle

NextAnalysis ==
    \/ \E r \in RetryResults : CallAnalyzeProfileComplete(r)
    \/ \E r \in ListResults(MatchLists) : CallMatchTrendsToInterests(r)
    \/ \E r \in ListResults(SuggestionLists) : CallGeneratePostSuggestions(r)
    \/ \E r \in ListResults(SuggestionLists) \cup {Unparsable} :
          CallGeneratePostSuggestionsSimple(r)
    \/ CallOver

SpecAnalysis == InitAnalysis /\ [][NextAnalysis]_vars

(***************************************************************************)
(* C12: analyze_profile_complete hands its caller an object with the three *)
(* keys user_interests, matched_trends and post_suggestions whatever the   *)
(* remote outcome; when the retries were exhausted (on remote failures or  *)
(* on malformed JSON) or the JSON is not an object, that object is the     *)
(* hard-coded default interests with empty matched_trends and              *)
(* post_suggestions.                                                       *)
(***************************************************************************)
C12_CompleteNeverFails ==
    ai.op = "analyze_profile_complete" =>
        /\ DOMAIN ai.result =
              {"user_interests", "matched_trends", "post_suggestions"}
        /\ ai.result.user_interests # NoAnalysis.user_interests
        /\ (ai.remote.kind = "raised" \/ ai.remote.doc.type # "object") =>
              ai.result = DefaultAnalysis

C12_Witness ==
    /\ ai.op = "analyze_profile_complete"
    /\ ai.remote \in Raised
    /\ ai.remote.err = "ValueError"
    /\ ai.result = DefaultAnalysis

(***************************************************************************)
(* C14: every list of matches or suggestions an analysis operation returns *)
(* is empty or has the required keys in every element: hashtag and         *)
(* match_score for a match, trend_hashtag and suggestions for a            *)
(* suggestion.                                                             *)
(***************************************************************************)
C14_ListsAreValidatedOrEmpty ==
    /\ ai.op = "analyze_profile_complete" =>
          /\ AllHaveKeys(ai.result.matched_trends, {"hashtag", "match_score"})
          /\ AllHaveKeys(ai.result.post_suggestions,
                         {"trend_hashtag", "suggestions"})
    /\ ai.op = "match_trends_to_interests" =>
          AllHaveKeys(ai.result, {"hashtag", "match_score"})
    /\ ai.op = "generate_post_suggestions" =>
          AllHaveKeys(ai.result, {"trend_hashtag", "suggestions"})
    /\ ai.op = "generate_post_suggestions_simple" =>
          AllHaveKeys(ai.result.items, {"trend_hashtag", "suggestions"})

-----------------------------------------------------------------------------
(***************************************************************************)
(* analyze_profile_fast (gemini_utils.py lines 91-158): three prompts      *)
(* through _process_requests_parallel, then each position of the returned  *)
(* list parsed as one facet.                                               *)
(***************************************************************************)
\* The prompts of lines 99-121: 1 profile interests, 2 trend matches,
\* 3 post suggestions.
NumFacets == 3

Facets == 1..NumFacets

\* A facet that is absent: None for the interests, [] for a list.
Absent == 0

\* The text a prompt's call returns when it succeeds either parses as what
\* the prompt asked for, or does not parse.
Contents == [Facets -> {"valid", "unparsable"}]

\* Lines 123-125: the prompts are built and handed to
\* _process_requests_parallel.
InitFast ==
    /\ RetryIdle
    /\ par_n = NumFacets
    /\ fut = [i \in 1..par_n |-> "queued"]
    /\ yielded = {}
    /\ results = <<>>
    /\ par_pc = "collecting"
    /\ expired = FALSE
    /\ pending_at_deadline = {}
    /\ DbIdle
    /\ ApiIdle
    /\ SchedIdle
    /\ SuggIdle
    /\ \E c \in Contents :
          ai = [op |-> "analyze_profile_fast", content |-> c, done |-> FALSE,
                result |-> [f \in Facets |-> Absent]]

\* Lines 133-152 for position k of `results`: an empty string is skipped,
\* text that json.loads rejects leaves the facet as it was, and for the
\* interests UserInterests(**profile_data) raises unless the value is the
\* answer to the profile prompt.  A facet holds the number of the prompt
\* whose parsed answer it was given.
ParseFacet(k) ==
    LET text == results[k] IN
    IF text = EmptyString THEN Absent
    ELSE IF ai.content[text] = "unparsable" THEN Absent
    ELSE IF k = 1 /\ text # 1 THEN Absent
    ELSE text

\* _process_requests_parallel has returned: lines 127-154.
FastParse ==
    /\ ai.op = "analyze_profile_fast"
    /\ ~ai.done
    /\ par_pc = "returned"
    /\ ai' = [ai EXCEPT !.done = TRUE,
                        !.result = [f \in Facets |-> ParseFacet(f)]]
    /\ UNCHANGED othersThanAi

\* _process_requests_parallel has raised: lines 156-158.
FastExcept ==
    /\ ai.op = "analyze_profile_fast"
    /\ ~ai.done
    /\ par_pc = "raised"
    /\ ai' = [ai EXCEPT !.done = TRUE,
                        !.result = [f \in Facets |-> Absent]]
    /\ UNCHANGED othersThanAi

NextFast ==
    \/ NextParallel
    \/ FastParse
    \/ FastExcept

SpecFast == InitFast /\ [][NextFast]_vars

(***************************************************************************)
(* C13: in analyze_profile_fast the three facets are independent: when the *)
(* function has returned, each facet whose own prompt produced a valid     *)
(* response within the batch timeout holds that response's parsed content, *)
(* and each other facet is absent.                                         *)
(***************************************************************************)
C13_FacetsAreIndependent ==
    (ai.op = "analyze_profile_fast" /\ ai.done) =>
        \A f \in Facets :
            ai.result[f] =
                IF fut[f] = "ok" /\ f \notin pending_at_deadline
                       /\ ai.content[f] = "valid"
                    THEN f ELSE Absent

-----------------------------------------------------------------------------
(***************************************************************************)
(* TrendScheduler (scheduler.py): start(), the refresher run                *)
(* fetch_and_store_trends (the immediate one of start() and those of the   *)
(* 30-minute interval job), and stop().  The job is run by one thread at a *)
(* time, and the immediate run of the first start() ends before the        *)
(* scheduler is started, so with one start() at most one run is in         *)
(* progress.                                                               *)
(***************************************************************************)
\* What get_trending_hashtags_mock can return: nothing, a list of trends, a
\* list with an element that lacks a key.
TrendCandidates ==
    { <<>>,
      <<[hashtag |-> "#a", caption |-> "c1"], [hashtag |-> "#b", caption |-> "c1"]>>,
      <<[hashtag |-> "#a", caption |-> "c1"], [hashtag |-> "#a"]>> }

\* fetch_and_store_trends is entered by thread th.
BeginRun(th) ==
    [sched EXCEPT !.thread = th, !.stale = FALSE, !.candidates = <<>>,
                  !.source_calls = 0, !.insert_calls = 0, !.handed = <<>>,
                  !.outcome = "none", !.failed_at = "none",
                  !.pre_trending = trending, !.pre_matched = matched,
                  !.stop_in_run = FALSE]

\* A mutant of LogAndSwallow: the exception leaves the function and takes the
\* job with it.
ExceptionEscapes(rec, where) ==
    [rec EXCEPT !.run = "done", !.outcome = "failed", !.failed_at = where,
                !.has_failed = TRUE, !.escaped = TRUE, !.job = FALSE]

\* except Exception as e: logger.error(...)   (lines 40-41)
LogAndSwallow(rec, where) ==
    [rec EXCEPT !.run = "done", !.outcome = "failed", !.failed_at = where,
                !.has_failed = TRUE]

\* Lines 20-28: the staleness check, which may raise (the database is
\* unreachable); fresh data ends the run.
RunCheck(th, raises) ==
    /\ sched.run = "idle"
    /\ Idle(1)
    /\ sched' =
          IF raises THEN LogAndSwallow(BeginRun(th), "check")
          ELSE IF ~ShouldFetchTrends
            THEN [BeginRun(th) EXCEPT !.run = "done", !.outcome = "skipped"]
          ELSE [BeginRun(th) EXCEPT !.run = "fetching", !.stale = TRUE]
    /\ UNCHANGED dbVars
    /\ UNCHANGED othersThanSched

\* A mutant of HandedToInsert: the candidates are handed over one call each,
\* and the first call gets the first candidate only.
HandedToInsertOneByOne(trends) == Take(trends, 1)

\* self.db.insert_trending_data(trends)   (line 35)
HandedToInsert(trends) == trends

\* Lines 31-35: the candidates are fetched; `if trends:` decides whether
\* insert_trending_data is called, whose first statement opens the session.
RunFetch(trends) ==
    /\ sched.run = "fetching"
    /\ IF trends = <<>>
         THEN /\ sched' = [sched EXCEPT !.source_calls = @ + 1,
                                        !.candidates = trends,
                                        !.run = "done", !.outcome = "no_data"]
              /\ UNCHANGED dbVars
         ELSE /\ sched' = [sched EXCEPT !.source_calls = @ + 1,
                                        !.candidates = trends,
                                        !.run = "inserting",
                                        !.insert_calls = @ + 1,
                                        !.handed = HandedToInsert(trends)]
              /\ Idle(1)
              /\ OpenSession(1, "insert", "", 0)
              /\ UNCHANGED <<trending, matched, now, last_saved>>
    /\ UNCHANGED othersThanSched

\* get_trending_hashtags_mock raises (the mock file is not valid JSON).
RunFetchFails ==
    /\ sched.run = "fetching"
    /\ sched' = LogAndSwallow([sched EXCEPT !.source_calls = @ + 1], "fetch")
    /\ UNCHANGED dbVars
    /\ UNCHANGED othersThanSched

\* The loop, commit and rollback of insert_trending_data within the run.
RunInsertElement ==
    /\ sched.run = "inserting"
    /\ sess[1].op = "insert"
    /\ sess[1].n < Len(sched.handed)
    /\ InsertElement(1, sched.handed[sess[1].n + 1])

RunInsertCommit ==
    /\ sched.run = "inserting"
    /\ sess[1].op = "insert"
    /\ sess[1].n = Len(sched.handed)
    /\ Commit(1)

RunInsertCommitFails ==
    /\ sched.run = "inserting"
    /\ CommitFails(1)

\* insert_trending_data has returned (line 36) or raised (lines 40-41).
RunInsertReturns ==
    /\ sched.run = "inserting"
    /\ Idle(1)
    /\ sched' = IF sess[1].outcome = "raised"
                  THEN LogAndSwallow(sched, "insert")
                  ELSE [sched EXCEPT !.run = "done", !.outcome = "stored"]
    /\ UNCHANGED dbVars
    /\ UNCHANGED othersThanSched

\* start_scheduler() and lines 45-53 of start(): the job is registered.
StartAddJob ==
    /\ sched.start_pc = "none"
    /\ sched.stop_pc = "none"
    /\ sched' = [sched EXCEPT !.start_pc = "immediate", !.job = TRUE,
                               !.starts = @ + 1]
    /\ UNCHANGED dbVars
    /\ UNCHANGED othersThanSched

\* Line 56: the immediate run.
ImmediateRun(raises) ==
    /\ sched.start_pc = "immediate"
    /\ sched.thread = "none"
    /\ RunCheck("startup", raises)

\* Lines 58-66: the immediate run has returned, the scheduler is started and
\* the exit hook is registered; an exception that had left the run would be
\* caught by the except of start() and the scheduler would not be started.
SchedulerStarts ==
    /\ sched.start_pc = "immediate"
    /\ sched.run = "done"
    /\ sched' = IF sched.escaped
                  THEN [sched EXCEPT !.start_pc = "failed", !.run = "idle",
                                     !.thread = "none"]
                  ELSE [sched EXCEPT !.start_pc = "done", !.running = TRUE,
                                     !.run = "idle", !.thread = "none",
                                     !.hooks = @ + 1]
    /\ UNCHANGED dbVars
    /\ UNCHANGED othersThanSched

\* The interval trigger of the job fires and the job's thread runs it.
IntervalFires(raises) ==
    /\ sched.running
    /\ sched.job
    /\ sched.thread = "none"
    /\ RunCheck("timer", raises)

\* A run of the job has ended; its thread is free again.
RunOver ==
    /\ sched.run = "done"
    /\ sched.thread = "timer"
    /\ sched' = [sched EXCEPT !.run = "idle", !.thread = "none"]
    /\ UNCHANGED dbVars
    /\ UNCHANGED othersThanSched

\* A mutant of SchedulerRunning: stop() does not look at scheduler.running.
SchedulerRunningNotChecked(rec) == TRUE

\* `if self.scheduler.running` (line 70), after `if trend_scheduler`
\* (line 92)
SchedulerRunning(rec) == rec.start_pc # "none" /\ rec.running

\* self.scheduler.shutdown() (line 71): no further run is started and the
\* call waits for the run in progress; on a scheduler that is not running
\* it raises SchedulerNotRunningError.
Shutdown(rec) ==
    IF rec.running
        THEN [rec EXCEPT !.running = FALSE, !.stop_pc = "waiting",
                         !.last_stop = "shutdown",
                         !.stop_in_run = (rec.run = "fetching"
                                            \/ rec.run = "inserting")]
        ELSE [rec EXCEPT !.stop_raised = TRUE, !.stop_pc = "returned",
                         !.last_stop = "shutdown"]

\* stop_scheduler() / stop() is called (lines 68-72, 89-93), not during
\* start() and not during another stop().
StopCalled ==
    /\ sched.start_pc \notin {"immediate", "again"}
    /\ sched.stop_pc # "waiting"
    /\ sched.exit_pc = "none"
    /\ sched' = IF SchedulerRunning(sched)
                  THEN Shutdown(sched)
                  ELSE [sched EXCEPT !.stop_pc = "returned",
                                     !.last_stop = "noop"]
    /\ UNCHANGED dbVars
    /\ UNCHANGED othersThanSched

\* shutdown() returns once the run in progress has ended.
StopReturns ==
    /\ sched.stop_pc = "waiting"
    /\ sched.thread = "none"
    /\ sched' = [sched EXCEPT !.stop_pc = "returned"]
    /\ UNCHANGED dbVars
    /\ UNCHANGED othersThanSched

InitScheduler ==
    /\ RetryIdle
    /\ ParIdle
    /\ DbIdle
    /\ ApiIdle
    /\ AiIdle
    /\ SchedIdle
    /\ SuggIdle

\* The steps of a refresher run after its staleness check.
RunSteps ==
    \/ \E trends \in TrendCandidates : RunFetch(trends)
    \/ RunFetchFails
    \/ RunInsertElement
    \/ RunInsertCommit
    \/ RunInsertCommitFails
    \/ RunInsertReturns

NextScheduler ==
    \/ StartAddJob
    \/ \E raises \in BOOLEAN : ImmediateRun(raises)
    \/ SchedulerStarts
    \/ \E raises \in BOOLEAN : IntervalFires(raises)
    \/ RunSteps
    \/ RunOver
    \/ StopCalled
    \/ StopReturns
    \/ Tick

SpecScheduler == InitScheduler /\ [][NextScheduler]_vars

\* The threads make progress, the started scheduler keeps firing the job's
\* trigger, and start() goes on after its immediate run.
SpecSchedulerLive ==
    /\ SpecScheduler
    /\ WF_vars(\E raises \in BOOLEAN : ImmediateRun(raises))
    /\ WF_vars(SchedulerStarts)
    /\ WF_vars(\E raises \in BOOLEAN : IntervalFires(raises))
    /\ WF_vars(RunSteps)
    /\ WF_vars(RunOver)

(***************************************************************************)
(* C15: a failure inside a refresher run (in the staleness check, in the   *)
(* fetch of the candidates or in the insert) never leaves                  *)
(* fetch_and_store_trends; the job stays registered, and while the         *)
(* scheduler is running a later interval run is executed after every       *)
(* failed run; whatever the outcome of the immediate run of start(), the   *)
(* scheduler is started.                                                   *)
(***************************************************************************)
C15_FailedRunStopsNothing ==
    /\ [](~sched.escaped)
    /\ []((sched.has_failed /\ sched.start_pc # "none") => sched.job)
    /\ (sched.start_pc = "immediate") ~>
            (sched.start_pc = "done" /\ sched.running)
    /\ (sched.has_failed /\ sched.running /\ sched.thread = "none") ~>
            (sched.thread = "timer" \/ ~sched.running)

C15_Witness ==
    /\ sched.has_failed
    /\ sched.running
    /\ sched.thread = "timer"
    /\ sched.run = "inserting"
    /\ sched.outcome = "none"

\* A run has ended and found the data stale, and its fetch did not fail.
StaleRunEnded ==
    /\ sched.outcome \in {"no_data", "stored", "failed"}
    /\ sched.stale
    /\ sched.failed_at # "fetch"

\* A run that found the data fresh made no call and changed no table.
FreshRunIsNoOp ==
    sched.outcome = "skipped" =>
        /\ ~sched.stale
        /\ sched.source_calls = 0
        /\ sched.insert_calls = 0
        /\ trending = sched.pre_trending
        /\ matched = sched.pre_matched

(***************************************************************************)
(* C16 as claimed: a refresher run that finds the data fresh calls neither *)
(* the trend source nor the insert and leaves both tables unchanged; a run *)
(* that finds the data stale fetches the candidates and passes all of them *)
(* to insert_trending_data in a single insert call.                        *)
(***************************************************************************)
C16_Original_StaleRunInsertsOnce ==
    /\ FreshRunIsNoOp
    /\ StaleRunEnded =>
          /\ sched.source_calls = 1
          /\ sched.insert_calls = 1
          /\ sched.handed = sched.candidates

(***************************************************************************)
(* C16 as amended: a refresher run that finds the data fresh calls neither *)
(* the trend source nor the insert and leaves both tables unchanged; a run *)
(* that finds the data stale fetches the candidates and, when there is at  *)
(* least one, passes all of them to insert_trending_data in a single       *)
(* insert call; when there is none it makes no insert call and leaves the  *)
(* tables unchanged.                                                       *)
(***************************************************************************)
C16_StaleRunInsertsCandidatesOnce ==
    /\ FreshRunIsNoOp
    /\ sched.insert_calls <= 1
    /\ StaleRunEnded =>
          /\ sched.source_calls = 1
          /\ IF sched.candidates # <<>>
                THEN /\ sched.insert_calls = 1
                     /\ sched.handed = sched.candidates
                ELSE /\ sched.insert_calls = 0
                     /\ trending = sched.pre_trending
                     /\ matched = sched.pre_matched

C16_Witness ==
    /\ StaleRunEnded
    /\ sched.outcome = "stored"
    /\ sched.thread = "timer"
    /\ Len(sched.handed) = 2
    /\ sched.pre_trending = <<>>
    /\ Len(trending) = 2

\* The (hashtag, caption) pairs of a list of rows or dicts.
Pairs(rows) == [k \in 1..Len(rows) |-> <<rows[k].hashtag, rows[k].caption>>]

\* The run's insert was applied in full: every element of the list it was
\* handed that was not in the table is now a row, after the rows there were.
InsertAppliedInFull ==
    /\ \A k \in 1..Len(sched.handed) :
          ~HasKeyError(sched.handed[k], {"hashtag", "caption"})
    /\ Pairs(trending) =
          Pairs(sched.pre_trending) \o
          Pairs(SelectSeq(sched.handed,
                          LAMBDA t : \A k \in 1..Len(sched.pre_trending) :
                                        ~SamePair(sched.pre_trending[k], t)))

(***************************************************************************)
(* C17: once stop() has returned no refresher run is in progress or is     *)
(* started; the insert of a run that was in flight when stop() was called  *)
(* is committed in full or not applied at all; stop() never raises, and a  *)
(* stop() on a scheduler that is not running (never started, or stopped    *)
(* before) changes nothing.                                                *)
(***************************************************************************)
C17_StopIsClean ==
    /\ [](~sched.stop_raised)
    /\ [](sched.stop_pc = "returned" => (sched.thread = "none" /\ Idle(1)))
    /\ [](sched.stop_in_run =>
            (trending = sched.pre_trending \/ InsertAppliedInFull))
    /\ [][(~sched.running /\ sched.stop_pc # "waiting"
             /\ sched'.stop_pc = "returned"
             /\ (sched.stop_pc = "none" \/ sched'.last_stop # sched.last_stop))
           => /\ sched' = [sched EXCEPT !.stop_pc = "returned",
                                        !.last_stop = sched'.last_stop]
              /\ sched'.last_stop \in {"noop", sched.last_stop}
              /\ UNCHANGED dbVars]_vars

C17_Witness ==
    /\ sched.stop_in_run
    /\ sched.stop_pc = "returned"
    /\ sched.last_stop = "noop"
    /\ sched.outcome = "stored"
    /\ trending # sched.pre_trending

-----------------------------------------------------------------------------
(***************************************************************************)
(* GET /suggestions/{username} (main.py lines 157-213), served between the *)
(* POST /analyze-profile requests.                                         *)
(***************************************************************************)
\* .order_by(MatchedTrends.match_score.desc())
RECURSIVE OrderByMatchScoreDesc(_)
OrderByMatchScoreDesc(rows) ==
    IF rows = <<>> THEN <<>>
    ELSE LET k == CHOOSE i \in 1..Len(rows) :
                    \A j \in 1..Len(rows) :
                        rows[i].match_score >= rows[j].match_score
             rest == [j \in 1..(Len(rows) - 1) |->
                        IF j < k THEN rows[j] ELSE rows[j + 1]]
         IN <<rows[k]>> \o OrderByMatchScoreDesc(rest)

\* A mutant of GetMatchedTrends: only the best match is read.
GetMatchedTrendsBestOnly(u) == Take(OrderByMatchScoreDesc(RowsOf(u)), 1)

\* get_matched_trends (db.py lines 111-120)
GetMatchedTrends(u) == OrderByMatchScoreDesc(RowsOf(u))

\* Lines 190-203: the list comprehension over what
\* generate_post_suggestions_simple returned; any exception in it (a value
\* that is not a list of dicts, an element without a key) gives [].
SuggestionsFromRaw(raw) ==
    IF raw.kind = "list"
       /\ AllHaveKeys(raw.items, {"trend_hashtag", "suggestions"})
        THEN raw.items
        ELSE <<>>

\* The handler, for the way r in which the remote call of
\* generate_post_suggestions_simple ends if it is made.
GetSuggestions(u, r) ==
    /\ sugg.pc = "idle"
    /\ api.pc \in {"idle", "done"}
    /\ Idle(1)
    /\ LET matched_trends_db == GetMatchedTrends(u) IN
       sugg' =
         IF matched_trends_db = <<>>
           THEN [NoSuggestions EXCEPT !.pc = "done", !.username = u,
                                      !.status = 404, !.analysis = api]
           ELSE [NoSuggestions EXCEPT
                    !.pc = "done", !.username = u, !.status = 200,
                    !.matched_trends = ValuesOf(matched_trends_db),
                    !.ai_calls = 1, !.remote = r,
                    !.post_suggestions =
                        SuggestionsFromRaw(GeneratePostSuggestionsSimple(r)),
                    !.analysis = api]
    /\ UNCHANGED othersThanSugg

\* The response has been sent and the request is over.
SuggestionsOver ==
    /\ sugg.pc = "done"
    /\ sugg' = NoSuggestions
    /\ UNCHANGED othersThanSugg

\* A step of POST /analyze-profile while no GET is being served.
AnalyzeProfileStep ==
    /\ sugg.pc = "idle"
    /\ NextApi

NextSuggestions ==
    \/ AnalyzeProfileStep
    \/ \E u \in ApiUsers : \E r \in ListResults(SuggestionLists) \cup {Unparsable} :
          GetSuggestions(u, r)
    \/ SuggestionsOver

SpecSuggestions == InitApi /\ [][NextSuggestions]_vars

\* The two lists hold the same values the same number of times.
SameBag(l1, l2) ==
    /\ Len(l1) = Len(l2)
    /\ \A k \in 1..Len(l1) : Occurrences(l1, l1[k]) = Occurrences(l2, l1[k])

HashtagsOf(l) == [k \in 1..Len(l) |-> l[k].hashtag]

(***************************************************************************)
(* C20: after a POST /analyze-profile for user U that returned a success   *)
(* response with a non-empty matched_trends list, the next                 *)
(* GET /suggestions/U does not answer 404 and returns matched trends with  *)
(* the same hashtags as that response, ordered by match score in           *)
(* non-increasing order.                                                   *)
(***************************************************************************)
C20_SuggestionsRepeatTheAnalysis ==
    (/\ sugg.pc = "done"
     /\ sugg.analysis.pc = "done"
     /\ sugg.analysis.status = 200
     /\ sugg.analysis.matched_trends # <<>>
     /\ sugg.analysis.username = sugg.username)
    => /\ sugg.status = 200
       /\ SameBag(HashtagsOf(sugg.matched_trends),
                  HashtagsOf(sugg.analysis.matched_trends))
       /\ \A k \in 1..(Len(sugg.matched_trends) - 1) :
             sugg.matched_trends[k].match_score >=
                sugg.matched_trends[k + 1].match_score

-----------------------------------------------------------------------------
(***************************************************************************)
(* Further properties of POST /analyze-profile.                            *)
(***************************************************************************)
\* The step that ends a request whose save_matched_trends raised.
RespondsAfterFailedSave ==
    /\ api.pc = "saving"
    /\ api'.pc = "done"
    /\ sess[1].outcome = "raised"

(***************************************************************************)
(* C21: if save_matched_trends fails during POST /analyze-profile, the     *)
(* failure is swallowed: the request still returns the success response    *)
(* with the interests, the matched trends and the suggestions of the       *)
(* analysis, and the status is not an error status.                        *)
(***************************************************************************)
C21_SaveFailureIsSwallowed ==
    [][RespondsAfterFailedSave =>
          /\ api'.status = 200
          /\ api'.user_interests = api.analysis.user_interests
          /\ api'.matched_trends = FormatMatches(api.analysis.matched_trends)
          /\ api'.post_suggestions =
                 FormatSuggestions(api.analysis.post_suggestions)]_vars

C21_Witness ==
    /\ api.pc = "done"
    /\ api.save_failed
    /\ sess[1].outcome = "raised"
    /\ api.status = 200
    /\ api.matched_trends # <<>>
    /\ api.post_suggestions # <<>>

-----------------------------------------------------------------------------
(***************************************************************************)
(* The life of the scheduler in the process (scheduler.py, main.py          *)
(* lifespan): start_scheduler() called again on the TrendScheduler that    *)
(* exists, stop_scheduler(), and the exit of the process, which runs the   *)
(* hooks that start() registered with atexit.  The immediate run of a      *)
(* repeated start() is executed by the thread that calls start(), with a   *)
(* database session of its own, while the job's thread may be running.     *)
(***************************************************************************)
\* Calls of start_scheduler() explored.
MaxStarts == 2

\* The session of the thread that calls start() again.
CallerSession == 2

\* start_scheduler() when trend_scheduler exists, and lines 45-53 of start():
\* add_job with replace_existing=True puts the job in the place of the one
\* with the same id.
StartAgain ==
    /\ sched.start_pc \in {"done", "failed"}
    /\ sched.stop_pc # "waiting"
    /\ sched.exit_pc = "none"
    /\ sched.starts < MaxStarts
    /\ sched' = [sched EXCEPT !.start_pc = "again", !.job = TRUE,
                              !.starts = @ + 1, !.caller = "idle",
                              !.caller_handed = <<>>]
    /\ UNCHANGED dbVars
    /\ UNCHANGED othersThanSched

\* Line 56 in a repeated start(): lines 20-28 of the run.
CallerRunCheck(raises) ==
    /\ sched.start_pc = "again"
    /\ sched.caller = "idle"
    /\ sched' = [sched EXCEPT !.caller =
                    IF raises \/ ~ShouldFetchTrends THEN "done"
                    ELSE "fetching"]
    /\ UNCHANGED dbVars
    /\ UNCHANGED othersThanSched

\* Lines 31-35 of that run.
CallerRunFetch(trends) ==
    /\ sched.caller = "fetching"
    /\ IF trends = <<>>
         THEN /\ sched' = [sched EXCEPT !.caller = "done"]
              /\ UNCHANGED dbVars
         ELSE /\ sched' = [sched EXCEPT !.caller = "inserting",
                                        !.caller_handed = HandedToInsert(trends)]
              /\ Idle(CallerSession)
              /\ OpenSession(CallerSession, "insert", "", 0)
              /\ UNCHANGED <<trending, matched, now, last_saved>>
    /\ UNCHANGED othersThanSched

CallerRunFetchFails ==
    /\ sched.caller = "fetching"
    /\ sched' = [sched EXCEPT !.caller = "done"]
    /\ UNCHANGED dbVars
    /\ UNCHANGED othersThanSched

\* The loop, commit and rollback of insert_trending_data within that run.
CallerInsertElement ==
    /\ sched.caller = "inserting"
    /\ sess[CallerSession].op = "insert"
    /\ sess[CallerSession].n < Len(sched.caller_handed)
    /\ InsertElement(CallerSession,
                     sched.caller_handed[sess[CallerSession].n + 1])

CallerInsertCommit ==
    /\ sched.caller = "inserting"
    /\ sess[CallerSession].op = "insert"
    /\ sess[CallerSession].n = Len(sched.caller_handed)
    /\ Commit(CallerSession)

CallerInsertCommitFails ==
    /\ sched.caller = "inserting"
    /\ CommitFails(CallerSession)

\* insert_trending_data has returned or raised (lines 36, 40-41).
CallerInsertReturns ==
    /\ sched.caller = "inserting"
    /\ Idle(CallerSession)
    /\ sched' = [sched EXCEPT !.caller = "done"]
    /\ UNCHANGED dbVars
    /\ UNCHANGED othersThanSched

\* Lines 58-66 in a repeated start(): scheduler.start() raises
\* SchedulerAlreadyRunningError on a running scheduler, which the except of
\* line 65 logs, so line 63 is not reached; on a stopped scheduler it starts
\* it again and line 63 registers one more exit hook.
StartAgainReturns ==
    /\ sched.start_pc = "again"
    /\ sched.caller = "done"
    /\ sched' = IF sched.running
                  THEN [sched EXCEPT !.start_pc = "done", !.caller = "idle",
                                     !.start_raised = TRUE]
                  ELSE [sched EXCEPT !.start_pc = "done", !.caller = "idle",
                                     !.running = TRUE, !.hooks = @ + 1]
    /\ UNCHANGED dbVars
    /\ UNCHANGED othersThanSched

\* The process exits (not inside start() or stop()): the atexit hooks run.
ExitBegins ==
    /\ sched.exit_pc = "none"
    /\ sched.start_pc \notin {"immediate", "again"}
    /\ sched.stop_pc # "waiting"
    /\ sched' = [sched EXCEPT !.exit_pc = "hooks", !.hooks_left = sched.hooks]
    /\ UNCHANGED dbVars
    /\ UNCHANGED othersThanSched

\* One hook, `lambda: self.scheduler.shutdown()` (line 63): it does not look
\* at scheduler.running; shutdown() waits for the run in progress, and on a
\* scheduler that is not running it raises SchedulerNotRunningError.
ExitHookRuns ==
    /\ sched.exit_pc = "hooks"
    /\ sched.hooks_left > 0
    /\ sched' = IF sched.running
                  THEN [sched EXCEPT !.running = FALSE, !.exit_pc = "waiting",
                                     !.hooks_left = @ - 1]
                  ELSE [sched EXCEPT !.exit_raised = TRUE,
                                     !.hooks_left = @ - 1]
    /\ UNCHANGED dbVars
    /\ UNCHANGED othersThanSched

\* The shutdown() of a hook returns once the run in progress has ended.
ExitHookReturns ==
    /\ sched.exit_pc = "waiting"
    /\ sched.thread = "none"
    /\ sched' = [sched EXCEPT !.exit_pc = "hooks"]
    /\ UNCHANGED dbVars
    /\ UNCHANGED othersThanSched

\* All hooks have run.
ExitEnds ==
    /\ sched.exit_pc = "hooks"
    /\ sched.hooks_left = 0
    /\ sched' = [sched EXCEPT !.exit_pc = "exited"]
    /\ UNCHANGED dbVars
    /\ UNCHANGED othersThanSched

CallerRunSteps ==
    \/ \E trends \in TrendCandidates : CallerRunFetch(trends)
    \/ CallerRunFetchFails
    \/ CallerInsertElement
    \/ CallerInsertCommit
    \/ CallerInsertCommitFails
    \/ CallerInsertReturns

NextLifecycle ==
    \/ StartAddJob
    \/ \E raises \in BOOLEAN : ImmediateRun(raises)
    \/ SchedulerStarts
    \/ \E raises \in BOOLEAN : IntervalFires(raises)
    \/ RunSteps
    \/ RunOver
    \/ StopCalled
    \/ StopReturns
    \/ Tick
    \/ StartAgain
    \/ \E raises \in BOOLEAN : CallerRunCheck(raises)
    \/ CallerRunSteps
    \/ StartAgainReturns
    \/ ExitBegins
    \/ ExitHookRuns
    \/ ExitHookReturns
    \/ ExitEnds

SpecLifecycle == InitScheduler /\ [][NextLifecycle]_vars

\* A refresher run is being executed by the thread that called start().
ImmediateRunInProgress ==
    \/ sched.thread = "startup" /\ sched.run \in {"fetching", "inserting"}
    \/ sched.caller \in {"fetching", "inserting"}

\* A refresher run is being executed by the job's thread.
IntervalRunInProgress ==
    sched.thread = "timer" /\ sched.run \in {"fetching", "inserting"}

(***************************************************************************)
(* C22: after start_scheduler has been called one or more times, exactly   *)
(* one job fetch_trends is registered; the immediate run of each start()   *)
(* ends before the scheduler fires interval runs, so an immediate run and *)
(* an interval run are never in progress at the same time.                 *)
(***************************************************************************)
C22_OneJobAndImmediateRunAlone ==
    /\ sched.starts > 0 => sched.job
    /\ ~(ImmediateRunInProgress /\ IntervalRunInProgress)


-----------------------------------------------------------------------------
(***************************************************************************)
(* GET /trends (main.py get_trends) over the trending table as the         *)
(* refresher fills it.                                                     *)
(***************************************************************************)
\* Largest `limit` query parameter explored.
MaxLimit == 3

\* TrendItem(hashtag=trend.hashtag, caption=trend.caption, ...,
\* fetched_at=trend.fetched_at)   (lines 224-233)
TrendItemOf(trend) ==
    [hashtag |-> trend.hashtag, caption |-> trend.caption,
     fetched_at |-> trend.fetched_at]

\* Lines 220-239: the rows are read, turned into TrendItems and returned
\* with their number.
GetTrends(limit) ==
    /\ api.pc = "idle"
    /\ LET trending_data == GetLatestTrends(limit)
           trends == [k \in 1..Len(trending_data) |->
                          TrendItemOf(trending_data[k])]
       IN api' = [pc |-> "done", route |-> "trends", limit |-> limit,
                  status |-> 200, trends |-> trends,
                  total_count |-> Len(trends)]
    /\ UNCHANGED dbVars
    /\ UNCHANGED othersThanApi

\* Lines 241-242: the database cannot be read.
GetTrendsFails(limit) ==
    /\ api.pc = "idle"
    /\ api' = [pc |-> "done", route |-> "trends", limit |-> limit,
               status |-> 500, trends |-> <<>>, total_count |-> 0]
    /\ UNCHANGED dbVars
    /\ UNCHANGED othersThanApi

\* Most rows in the table.
MaxRows == 3

\* The tables insert_trending_data can have left: one row per pair of
\* hashtag and caption, in the order of their insertion.
TrendTables ==
    LET valid == {d \in TrendDicts : ~HasKeyError(d, {"hashtag", "caption"})}
        raw == UNION {[1..n -> valid \X (0..MaxTime)] : n \in 0..MaxRows}
        ok(t) == /\ \A i, j \in 1..Len(t) : (i < j) =>
                        /\ t[i][1] # t[j][1]
                        /\ t[i][2] <= t[j][2]
    IN {[k \in 1..Len(t) |-> TrendRow(t[k][1].hashtag, t[k][1].caption, t[k][2])] :
            t \in {x \in raw : ok(x)}}

InitTrends ==
    /\ RetryIdle
    /\ ParIdle
    /\ ApiIdle
    /\ AiIdle
    /\ SchedIdle
    /\ SuggIdle
    /\ trending \in TrendTables
    /\ matched = <<>>
    /\ now = MaxTime
    /\ sess = [s \in SessionIds |-> NoSession]
    /\ last_saved = [u \in Usernames |-> NeverSaved]

NextTrends ==
    \/ \E limit \in 0..MaxLimit : GetTrends(limit)
    \/ \E limit \in 0..MaxLimit : GetTrendsFails(limit)
    \/ RequestOver

SpecTrends == InitTrends /\ [][NextTrends]_vars

\* The step in which a GET /trends is answered with success.
TrendsAnswered ==
    /\ api.pc = "idle"
    /\ api'.pc = "done"
    /\ api'.status = 200

\* The number of rows of the table fetched at time t, and of items of the
\* response.
StoredAt(t) == Len(SelectSeq(trending, LAMBDA r : r.fetched_at = t))
ReturnedAt(items, t) == Len(SelectSeq(items, LAMBDA r : r.fetched_at = t))

(***************************************************************************)
(* C23: GET /trends with a limit returns min(limit, number of stored rows) *)
(* rows of the trending table, those with the greatest fetch times, in     *)
(* non-increasing order of fetch time; total_count is the number of rows   *)
(* returned, and the call leaves the table as it was.                      *)
(***************************************************************************)
C23_LatestRowsNewestFirst ==
    [][TrendsAnswered =>
        LET items == api'.trends
            n == Len(trending)
        IN /\ Len(items) = IF api'.limit < n THEN api'.limit ELSE n
           /\ api'.total_count = Len(items)
           /\ \A i \in 1..Len(items) : \A j \in i..Len(items) :
                 items[i].fetched_at >= items[j].fetched_at
           /\ \A r \in {items[i] : i \in 1..Len(items)} :
                 Occurrences(items, r) <=
                    Occurrences([k \in 1..n |-> TrendItemOf(trending[k])], r)
           /\ \A t \in 0..MaxTime :
                 (\E i \in 1..Len(items) : items[i].fetched_at < t)
                    => ReturnedAt(items, t) = StoredAt(t)
           /\ trending' = trending
           /\ matched' = matched]_vars

C23_Witness ==
    /\ api.pc = "done"
    /\ api.status = 200
    /\ api.limit = 2
    /\ api.total_count = 2
    /\ Len(trending) = 3
    /\ api.trends[1].fetched_at > api.trends[2].fetched_at

-----------------------------------------------------------------------------
(***************************************************************************)
(* The worker pool of _process_requests_parallel over the life of a batch. *)
(***************************************************************************)
\* The pool threads take queued work while there is some, and every call of
\* _make_request_with_retry ends (it makes a bounded number of attempts).
SpecParallelLive ==
    /\ SpecParallel
    /\ WF_vars(\E i \in Prompts : WorkerStart(i))
    /\ WF_vars(\E i \in Prompts : \E ok \in BOOLEAN : WorkerFinish(i, ok))

(***************************************************************************)
(* C24: during a batch at most 3 calls are in flight at any moment, every  *)
(* prompt of the batch is eventually started, and once                     *)
(* _process_requests_parallel has returned or raised no call of the batch  *)
(* is queued or running, and none starts or ends afterwards.               *)
(***************************************************************************)
C24_BoundedPoolLivesWithTheBatch ==
    /\ [](Cardinality(Running) <= MaxWorkers)
    /\ (\E i \in Prompts : fut[i] = "queued") ~>
            (\A i \in Prompts : fut[i] # "queued")
    /\ [](ParDone => \A i \in Prompts : Finished(i))
    /\ [][ParDone => fut' = fut]_vars

C24_Witness ==
    /\ par_pc = "raised"
    /\ par_n > MaxWorkers
    /\ pending_at_deadline = Prompts
    /\ \A i \in Prompts : Finished(i)

-----------------------------------------------------------------------------
(***************************************************************************)
(* Further properties of _make_request_with_retry.                         *)
(***************************************************************************)
\* The attempt made in this step ended in a failure of the remote call, or
\* in a response that is not JSON while JSON is expected.
AttemptFailedRemotely == calls' = calls + 1 /\ last_kind' = "error"

AttemptMalformed ==
    /\ calls' = calls + 1
    /\ last_kind' = "malformed"
    /\ expected_format = "json"

(***************************************************************************)
(* C25: the pause before the next attempt is 2 seconds after a malformed   *)
(* JSON response and 3 + 2k seconds after a remote-call failure on attempt *)
(* k (k = 0, 1, 2, ... over all attempts); after the final attempt no      *)
(* pause is taken and the error is raised at once; an attempt that returns *)
(* takes no pause.                                                         *)
(***************************************************************************)
C25_PausesBetweenAttempts ==
    [][calls' = calls + 1 =>
        IF attempt < max_retries - 1
          THEN /\ AttemptFailedRemotely =>
                    /\ pauses' = Append(pauses, 3 + 2 * attempt)
                    /\ rq_pc' = "running"
               /\ AttemptMalformed =>
                    /\ pauses' = Append(pauses, 2)
                    /\ rq_pc' = "running"
               /\ ~(AttemptFailedRemotely \/ AttemptMalformed) =>
                    /\ pauses' = pauses
                    /\ rq_pc' = "returned"
          ELSE /\ pauses' = pauses
               /\ rq_pc' = IF AttemptFailedRemotely \/ AttemptMalformed
                             THEN "raised" ELSE "returned"]_vars

C25_Witness ==
    /\ max_retries = MaxRetries
    /\ expected_format = "json"
    /\ rq_pc = "raised"
    /\ pauses = <<2, 5>>
    /\ rq_result.kind = "ValueError"

-----------------------------------------------------------------------------
(***************************************************************************)
(* C26: for every order in which the calls of a batch complete, the i-th   *)
(* entry of the list _process_requests_parallel returns is the result of   *)
(* the i-th prompt; so in analyze_profile_fast each facet is parsed from   *)
(* the response to its own prompt, never from the response to another.     *)
(***************************************************************************)
C26_ResultsFollowPromptOrder ==
    /\ par_pc = "returned" =>
          \A i \in Prompts :
              results[i] = IF fut[i] = "ok" THEN i ELSE EmptyString
    /\ (ai.op = "analyze_profile_fast" /\ ai.done) =>
          \A f \in Facets : ai.result[f] \in {Absent, f}

-----------------------------------------------------------------------------
\* The step in which a refresher run that found the data stale ends with
\* its candidates handed to insert_trending_data and the insert committed.
StaleRunStores ==
    /\ sched.run = "inserting"
    /\ sched'.run = "done"
    /\ sched'.stale
    /\ sched'.outcome = "stored"

(***************************************************************************)
(* C27: after a refresher run that found the data stale and completed      *)
(* without error the cached data is fresh: should_fetch_trends answers     *)
(* false when the run ends (and until an hour has passed), whatever the    *)
(* trending table held before the run, also when every candidate fetched   *)
(* was already stored.                                                     *)
(***************************************************************************)
C27_StaleRunMakesDataFresh ==
    [][StaleRunStores => ~ShouldFetchTrends']_vars

-----------------------------------------------------------------------------
(***************************************************************************)
(* C28: a POST /analyze-profile whose profile fetch returned data and for  *)
(* which trending rows exist is answered with the success response for     *)
(* every outcome of the remote analysis (failure, malformed text, JSON of  *)
(* any shape); what the analysis returned never makes it a 5xx.            *)
(***************************************************************************)
C28_AnalysisOutcomeNeverFailsRequest ==
    (api.pc = "done" /\ api.profile = "data" /\ api.had_trends) =>
        api.status = 200

-----------------------------------------------------------------------------
(***************************************************************************)
(* C29: for every maximum attempt count n >= 0 the invocation makes at     *)
(* most n remote calls and ends either by returning a response string or   *)
(* by raising an error, never by returning None, also when n is 0; when    *)
(* the expected format is not JSON it returns the fence-stripped text of   *)
(* the first remote call that does not fail.                               *)
(***************************************************************************)
C29_EndsWithTextOrError ==
    /\ calls <= max_retries
    /\ rq_pc = "returned" =>
          /\ rq_result.kind = "value"
          /\ rq_result.text = StripFences(raw_response)
    /\ rq_pc = "raised" => rq_result.kind \in {"remote_error", "ValueError"}
    /\ (expected_format = "text" /\ last_kind \in {"ok", "malformed"}) =>
          rq_pc = "returned"

-----------------------------------------------------------------------------
(***************************************************************************)
(* C30: over start_scheduler, stop_scheduler and the exit of the process,  *)
(* shutdown is requested of the scheduler only while it is running: after  *)
(* stop() has shut it down the exit hook of start() does not call shutdown *)
(* on the stopped scheduler, so neither stop() nor an exit hook ends with  *)
(* the scheduler's error.                                                  *)
(***************************************************************************)
C30_ShutdownOnlyWhileRunning ==
    /\ ~sched.stop_raised
    /\ ~sched.exit_raised

=============================================================================
